---- MODULE Spec2Model ----
(***************************************************************************)
(* Model of the pipeline orchestration core of the QA-generation backend:  *)
(* PipelineStep (the step tracker) and                                     *)
(* OrchestratorAgent.run_full_agentic_pipeline with the services it calls. *)
(*                                                                         *)
(* Python strings are modelled as sequences of tokens, so that startswith  *)
(* and string formatting are computed, None of a string as the string      *)
(* "None" or the empty sequence (noted at each place), None of a timestamp *)
(* as 0.  A coroutine runs atomically from one await to the next, which is *)
(* how asyncio schedules it: every action below is the code between two    *)
(* suspension points.                                                      *)
(***************************************************************************)
EXTENDS Integers, Sequences, FiniteSets, TLC

\* ------------------------------------------------------------------ bounds
MaxScenarios == 2   \* scenarios the LLM returns for one test suite
MaxClock == 3       \* readings of time.time() in the step-tracker runs
MaxRuns == 2        \* overlapping invocations on one OrchestratorAgent
MaxDeliveries == 2  \* webhook deliveries Jira makes
MaxSteps == 2       \* steps in one of the given, when, then lists of a scenario
MaxRequests == 2    \* requests a client sends to GET /jira/story/{issue_id}

VARIABLES
    now,        \* time.time()
    ps,         \* a PipelineStep driven directly through its four methods
    psExc,      \* TRUE when the last call on ps raised (TypeError in complete)
    objs,       \* the PipelineStep objects created so far, index = identity
    steps,      \* self.steps of the OrchestratorAgent instance (object ids)
    pc,         \* per invocation: the await it is suspended at
    args,       \* per invocation: issue_id, auto_publish, auto_push_git
    cur,        \* per invocation: the step object its stage works on
    loc,        \* per invocation: locals (test_suite, write_result, ...)
    tasks,      \* per invocation: the reviews launched by asyncio.gather
    result,     \* per invocation: pipeline_result
    git_repo_url, \* settings.git_repo_url is set
    db,         \* GenerationHistory rows committed
    env,        \* the deployment the runs are made in: "full", "overlap"
                \* or "history"
    trace,      \* per invocation: observations (steps created, calls made)
    jr,         \* a GET /jira/story request: JiraClient.get_issue under @retry
    llm,        \* one generate / generate_json call on an LLM client
    wh,         \* POST /jira/webhook: the last delivery and the tasks scheduled
    tsuite,     \* a TestSuite object and the assignments made on it
    gherkin,    \* a GherkinScenario and the text to_gherkin_text returned
    pub,        \* one JiraClient.publish_* call: its position and its result
    fld,        \* the custom fields of the Jira site and the calls of
                \* JiraClient.get_or_create_automation_field on one client
    rq,         \* GET /jira/story/{issue_id}: the last request, the
                \* dependencies FastAPI resolved for it and the answer
    fp          \* one POST /generate/full-pipeline request: the await
                \* QAGeneratorService.run_full_pipeline is suspended at

vars == <<now, ps, psExc, objs, steps, pc, args, cur, loc, tasks, result,
          git_repo_url, db, env, trace, jr, llm, wh, tsuite, gherkin, pub, fld, rq,
          fp>>

\* The objects and clients exercised on their own.
sideVars == <<tsuite, gherkin, pub, fld, rq, fp>>

\* The requests served beside the pipeline.
auxVars == <<jr, llm, wh, sideVars>>

pipeVars == <<objs, steps, pc, args, cur, loc, tasks, result, git_repo_url,
              db, env, trace>>

\* ------------------------------------------------------------ PipelineStep
NoError == <<>>     \* error = None

PipelineStep(name) ==
    [name |-> name, status |-> "pending", start_time |-> 0, end_time |-> 0,
     result |-> "None", error |-> NoError]

start(s, t) == [s EXCEPT !.status = "running", !.start_time = t]

complete(s, res, t) ==
    [s EXCEPT !.status = "completed", !.end_time = t, !.result = res]

\* complete() computes end_time - start_time for its log line after the
\* assignments: with start_time None this raises TypeError.
completeRaises(s) == s.start_time = 0

fail(s, err, t) == [s EXCEPT !.status = "failed", !.end_time = t, !.error = err]

skip(s, reason) == [s EXCEPT !.status = "skipped", !.error = reason]

duration(s) ==
    IF s.start_time # 0 /\ s.end_time # 0 THEN s.end_time - s.start_time ELSE 0

to_dict(s) ==
    [name |-> s.name, status |-> s.status, duration_seconds |-> duration(s),
     error |-> s.error]

Terminal == {"completed", "failed", "skipped"}

\* ---------------------------------------------------------------- strings
startswith(s, prefix) ==
    Len(s) >= Len(prefix) /\ SubSeq(s, 1, Len(prefix)) = prefix

RECURSIVE replace(_, _, _)
replace(s, old, new) ==
    IF Len(s) < Len(old) \/ s = <<>> THEN s
    ELSE IF startswith(s, old)
         THEN new \o replace(SubSeq(s, Len(old) + 1, Len(s)), old, new)
         ELSE <<s[1]>> \o replace(Tail(s), old, new)

\* A character is a one-character string; a character outside ASCII is
\* written as its code point.  str.isdigit() accepts every character whose
\* Unicode Numeric_Type is Digit or Decimal: the ASCII digits and, among
\* others, SUPERSCRIPT TWO (U+00B2) and ARABIC-INDIC DIGIT THREE (U+0663).
Digits ==
    {"0", "1", "2", "3", "4", "5", "6", "7", "8", "9", "U+00B2", "U+0663"}

isdigit(s) == s # <<>> /\ \A i \in 1..Len(s) : s[i] \in Digits

AdoPrefix == <<"A", "D", "O", "-">>

\* The issue ids the callers pass: a string of digits (a 4 and a
\* superscript two), a prefixed number, a Jira key.
IssueIds ==
    {<<"4", "U+00B2">>, <<"A", "D", "O", "-", "7">>, <<"P", "R", "-", "1">>}

is_ado(issue_id) == isdigit(issue_id) \/ startswith(issue_id, AdoPrefix)

clean_id(issue_id) ==
    IF is_ado(issue_id) THEN replace(issue_id, AdoPrefix, <<>>) ELSE issue_id

platform_name(issue_id) == IF is_ado(issue_id) THEN "Azure DevOps" ELSE "Jira"

\* "// " followed by the warning sign: the prefix the orchestrator tests.
ErrorMarker == <<"//", "WARN">>

\* The prefix CodeReviewerAgent.review tests.
SkippedMarker == ErrorMarker \o <<"Code generation skipped">>

\* ------------------------------------------------- AutomationEngineerAgent
\* What llm.generate_json hands back to an agent: it raises, or it returns
\* whatever json.loads produced (no schema is enforced): an object with or
\* without the expected fields, or a value that is not an object.
GeneratedCode == <<"test(", "v1", ")">>
ReviewedCode == <<"test(", "v2", ")">>
LlmError == <<"429 quota exceeded">>
NotObjectError == <<"object has no attribute 'get'">>

\* A JSON number under "code": json.loads hands back an int, and nothing
\* between the LLM and scenario.playwright_code checks that it is a str.
IntCode == <<"int(123)">>

isstr(code) == code # IntCode

CodeGenOutcomes ==
    { [kind |-> "error", err |-> LlmError, has_code |-> FALSE, code |-> <<>>],
      [kind |-> "object", err |-> NoError, has_code |-> TRUE, code |-> GeneratedCode],
      [kind |-> "object", err |-> NoError, has_code |-> TRUE, code |-> IntCode],
      [kind |-> "object", err |-> NoError, has_code |-> TRUE, code |-> <<>>],
      [kind |-> "object", err |-> NoError, has_code |-> FALSE, code |-> <<>>],
      [kind |-> "not_object", err |-> NoError, has_code |-> FALSE, code |-> <<>>] }

\* The placeholder generate_code returns when run() raised.
Placeholder(err) ==
    SkippedMarker \o <<" due to API error", "// Error: ">> \o err

generate_code(out) ==
    IF out.kind = "error" THEN Placeholder(out.err)
    ELSE IF out.kind = "not_object" THEN Placeholder(NotObjectError)
    ELSE IF out.has_code THEN out.code
    ELSE <<"//", "Code generation failed">>

\* ------------------------------------------------------- CodeReviewerAgent
\* overall_score of a JSON answer need not be a number: score_is_number
\* tells, and score is read only when it is.
ReviewDict(approved, score, isnum, issues, has_final, final) ==
    [approved |-> approved, overall_score |-> score, score_is_number |-> isnum,
     issues_found |-> issues, has_final |-> has_final, final_code |-> final]

ReviewOutcomes ==
    { [kind |-> "crash", err |-> <<"prompt formatting failed">>,
       value |-> ReviewDict(TRUE, 0, TRUE, <<>>, FALSE, <<>>)],
      [kind |-> "error", err |-> LlmError,
       value |-> ReviewDict(TRUE, 0, TRUE, <<>>, FALSE, <<>>)],
      [kind |-> "object", err |-> NoError,
       value |-> ReviewDict(TRUE, 8, TRUE, <<>>, TRUE, ReviewedCode)],
      [kind |-> "object", err |-> NoError,
       value |-> ReviewDict(FALSE, 3, TRUE, <<"weak locator">>, TRUE, <<>>)],
      [kind |-> "object", err |-> NoError,
       value |-> ReviewDict(TRUE, 0, FALSE, <<>>, TRUE, ReviewedCode)] }

\* Mutant: the LLM call is made outside any try block.
review_no_fallback(code, out) ==
    IF code = <<>> \/ startswith(code, SkippedMarker)
    THEN [raised |-> FALSE, llm_calls |-> 0, err |-> NoError,
          value |-> ReviewDict(FALSE, 0, TRUE, <<"No code was generated">>,
                               TRUE, code)]
    ELSE IF out.kind = "crash"
    THEN [raised |-> TRUE, llm_calls |-> 0, err |-> out.err, value |-> out.value]
    ELSE IF out.kind \in {"error", "not_object"}
    THEN [raised |-> TRUE, llm_calls |-> 1, err |-> out.err, value |-> out.value]
    ELSE [raised |-> FALSE, llm_calls |-> 1, err |-> NoError, value |-> out.value]

\* review(scenario, code): raised tells that the coroutine raised instead of
\* returning (an exception outside its try block).
review(code, out) ==
    IF code = <<>> \/ startswith(code, SkippedMarker)
    THEN [raised |-> FALSE, llm_calls |-> 0, err |-> NoError,
          value |-> ReviewDict(FALSE, 0, TRUE, <<"No code was generated">>,
                               TRUE, code)]
    ELSE IF out.kind = "crash"
    THEN [raised |-> TRUE, llm_calls |-> 0, err |-> out.err, value |-> out.value]
    ELSE IF out.kind = "error"
    THEN [raised |-> FALSE, llm_calls |-> 1, err |-> NoError,
          value |-> ReviewDict(TRUE, 5, TRUE,
                               <<"Review agent error: ">> \o out.err, TRUE, code)]
    ELSE IF out.kind = "not_object"
    THEN [raised |-> FALSE, llm_calls |-> 1, err |-> NoError,
          value |-> ReviewDict(TRUE, 5, TRUE,
                               <<"Review agent error: ">> \o NotObjectError,
                               TRUE, code)]
    ELSE [raised |-> FALSE, llm_calls |-> 1, err |-> NoError, value |-> out.value]

\* The test both loops of the code_review stage apply to a scenario.
Reviewable(code) == code # <<>> /\ ~startswith(code, ErrorMarker)

\* Line 281 on a code that is truthy and no str: the attribute lookup of
\* startswith raises before any review coroutine is awaited.
AttributeError == <<"'int' object has no attribute 'startswith'">>

ReviewableRaises(code) == code # <<>> /\ ~isstr(code)

\* Lines 291-310: apply the gathered reviews back, review_idx counting the
\* reviewable scenarios (1-based here).
RECURSIVE ApplyReviews(_, _, _, _, _)
ApplyReviews(scenarios, reviews, i, review_idx, summary) ==
    IF i > Len(scenarios)
    THEN [scenarios |-> scenarios, summary |-> summary]
    ELSE LET sc == scenarios[i] IN
         IF Reviewable(sc.playwright_code)
         THEN IF review_idx <= Len(reviews) /\ ~reviews[review_idx].raised
              THEN LET rv == reviews[review_idx].value
                       final_code == IF rv.has_final THEN rv.final_code
                                     ELSE sc.playwright_code
                       sc2 == IF final_code # <<>>
                              THEN [sc EXCEPT !.playwright_code = final_code]
                              ELSE sc
                       entry == [scenario_id |-> sc.id,
                                 approved |-> rv.approved,
                                 score |-> rv.overall_score,
                                 score_is_number |-> rv.score_is_number,
                                 issues |-> rv.issues_found]
                   IN ApplyReviews([scenarios EXCEPT ![i] = sc2], reviews,
                                   i + 1, review_idx + 1, Append(summary, entry))
              ELSE ApplyReviews(scenarios, reviews, i + 1, review_idx + 1, summary)
         ELSE ApplyReviews(scenarios, reviews, i + 1, review_idx, summary)

\* sum(r.get("score", 0) ...) raises TypeError on a score that is no number.
AvgScoreRaises(summary) ==
    \E k \in 1..Len(summary) : ~summary[k].score_is_number

ScoreTypeError == <<"unsupported operand type(s) for +">>

\* ------------------------------------------------------- OrchestratorAgent
Runs == 1..MaxRuns

Max(S) == CHOOSE x \in S : \A y \in S : y <= x

SeqsUpTo(S, n) == UNION {[1..k -> S] : k \in 0..n}

\* A dict-valued field of pipeline_result that is None until its stage sets it.
NoDict == [set |-> FALSE, success |-> FALSE, what |-> "None", error |-> NoError]
Dict(success, what, error) ==
    [set |-> TRUE, success |-> success, what |-> what, error |-> error]

NoSuite == [set |-> FALSE, scenarios |-> <<>>]

\* pipeline_result as built at lines 181-205.
InitialResult(issue_id) ==
    [success |-> FALSE, issue_id |-> issue_id, story |-> "None",
     acceptance_criteria |-> "None", gherkin_text |-> "None",
     test_suite |-> NoSuite, code_reviews |-> <<>>, git_result |-> NoDict,
     jira_publish_result |-> NoDict, steps |-> <<>>]

NoArgs == [issue_id |-> <<>>, auto_publish |-> FALSE, auto_push_git |-> FALSE]

NoLocals == [test_suite |-> <<>>, code_reviews_summary |-> <<>>,
             write_result |-> NoDict]

\* Observations of one invocation: the step objects it created, the calls it
\* made, the exception its handler caught, the steps of its own that were
\* running then and the step the handler marked, the objects it listed in
\* pipeline_result["steps"].
NoTrace == [created |-> <<>>, calls |-> <<>>, save_calls |-> 0,
            caught |-> FALSE, exc |-> NoError, running_at_raise |-> {},
            marked |-> 0, snapshot |-> <<>>, returned |-> FALSE,
            raised |-> FALSE]

\* The part of the state one invocation works on between two awaits.
Frame(r) ==
    [objs |-> objs, steps |-> steps, cur |-> cur[r], res |-> result[r],
     loc |-> loc[r], tr |-> trace[r], pc |-> pc[r]]

Install(r, m) ==
    /\ objs' = m.objs
    /\ steps' = m.steps
    /\ cur' = [cur EXCEPT ![r] = m.cur]
    /\ result' = [result EXCEPT ![r] = m.res]
    /\ loc' = [loc EXCEPT ![r] = m.loc]
    /\ trace' = [trace EXCEPT ![r] = m.tr]
    /\ pc' = [pc EXCEPT ![r] = m.pc]

\* stepN = PipelineStep(name); self.steps.append(stepN); stepN.start()
begin_step(m, name, t) ==
    LET id == Len(m.objs) + 1 IN
    [m EXCEPT !.objs = Append(@, start(PipelineStep(name), t)),
              !.steps = Append(@, id),
              !.cur = id,
              !.tr.created = Append(@, id)]

\* step6 = PipelineStep(...); self.steps.append(step6); step6.skip(reason)
skip_step(m, name, reason) ==
    LET id == Len(m.objs) + 1 IN
    [m EXCEPT !.objs = Append(@, skip(PipelineStep(name), reason)),
              !.steps = Append(@, id),
              !.cur = id,
              !.tr.created = Append(@, id)]

complete_step(m, payload, t) ==
    [m EXCEPT !.objs[m.cur] = complete(@, payload, t)]

fail_step(m, err, t) == [m EXCEPT !.objs[m.cur] = fail(@, err, t)]

\* Mutant: the handler logs the exception and marks no step.
except_handler_log_only(m, err, t) ==
    LET own == {m.tr.created[i] : i \in 1..Len(m.tr.created)}
    IN [m EXCEPT !.tr.caught = TRUE, !.tr.exc = err,
                 !.tr.running_at_raise =
                     {id \in own : m.objs[id].status = "running"}]

\* except Exception as e: the last step of self.steps that is running fails.
except_handler(m, err, t) ==
    LET running == {i \in 1..Len(m.steps) : m.objs[m.steps[i]].status = "running"}
        own == {m.tr.created[i] : i \in 1..Len(m.tr.created)}
        m1 == [m EXCEPT !.tr.caught = TRUE, !.tr.exc = err,
                        !.tr.running_at_raise =
                            {id \in own : m.objs[id].status = "running"}]
    IN IF running = {} THEN m1
       ELSE [m1 EXCEPT !.objs[m.steps[Max(running)]] = fail(@, err, t),
                       !.tr.marked = m.steps[Max(running)]]

\* Mutant: the history is saved in the try body only, the finally block
\* lists the steps and returns.
finally_block_success_only(m) ==
    [m EXCEPT !.res.steps = [i \in 1..Len(m.steps) |-> to_dict(m.objs[m.steps[i]])],
              !.tr.snapshot = m.steps,
              !.tr.save_calls = IF m.res.success THEN @ + 1 ELSE @,
              !.pc = "save"]

\* finally: the steps are listed and _save_pipeline_history is awaited.
finally_block(m) ==
    [m EXCEPT !.res.steps = [i \in 1..Len(m.steps) |-> to_dict(m.objs[m.steps[i]])],
              !.tr.snapshot = m.steps,
              !.tr.save_calls = @ + 1,
              !.pc = "save"]

raise_in_stage(m, err, t) == finally_block(except_handler(m, err, t))

finalize(m) == finally_block([m EXCEPT !.res.success = TRUE])

\* Mutant: the publication is started and not awaited.
publish_stage_detached(m, a, t) ==
    IF a.auto_publish
    THEN LET backend == IF is_ado(a.issue_id) THEN "azure" ELSE "jira"
             m1 == begin_step(m, "publish_results", t)
         IN finalize([m1 EXCEPT !.tr.calls = Append(@, <<backend, "publish">>)])
    ELSE finalize(m)

\* STEP 7 up to its await, lines 384-411.
publish_stage(m, a, t) ==
    IF a.auto_publish
    THEN LET backend == IF is_ado(a.issue_id) THEN "azure" ELSE "jira"
             m1 == begin_step(m, "publish_results", t)
         IN [m1 EXCEPT !.pc = "publish",
                       !.tr.calls = Append(@, <<backend, "publish">>)]
    ELSE finalize(m)

SkipReason == <<"No GIT_REPO_URL configured or auto_push_git=False">>

\* Mutant: the push is attempted whenever it is requested.
git_stage_no_url_check(m, a, repo_url, t) ==
    IF a.auto_push_git
    THEN [begin_step(m, "gitops_push", t) EXCEPT !.pc = "push"]
    ELSE LET m1 == skip_step(m, "gitops_push", SkipReason)
         IN publish_stage([m1 EXCEPT !.res.git_result = m.loc.write_result], a, t)

\* STEP 6 up to its await, lines 357-379.
git_stage(m, a, repo_url, t) ==
    IF a.auto_push_git /\ repo_url
    THEN [begin_step(m, "gitops_push", t) EXCEPT !.pc = "push"]
    ELSE LET m1 == skip_step(m, "gitops_push", SkipReason)
         IN publish_stage([m1 EXCEPT !.res.git_result = m.loc.write_result], a, t)

\* Mutant: the pipeline resumes when the first review is done
\* (asyncio.wait with FIRST_COMPLETED).
join_ready_first(ts) == \E k \in 1..Len(ts) : ts[k].state # "inflight"

\* asyncio.gather(*review_tasks, return_exceptions=True) resumes the pipeline
\* when no gathered review is still running.
join_ready(ts) == \A k \in 1..Len(ts) : ts[k].state # "inflight"

\* Mutant: gitops_write is started without code_review being completed.
after_gather_no_complete(m, reviews, t) ==
    LET applied == ApplyReviews(m.loc.test_suite, reviews, 1, 1, <<>>)
        m1 == [m EXCEPT !.loc.test_suite = applied.scenarios,
                        !.loc.code_reviews_summary = applied.summary,
                        !.res.code_reviews = applied.summary]
    IN IF AvgScoreRaises(applied.summary)
       THEN raise_in_stage(m1, ScoreTypeError, t)
       ELSE [begin_step(m1, "gitops_write", t) EXCEPT !.pc = "write"]

\* Mutant: the score error is recorded on the step and the run goes on.
after_gather_swallow(m, reviews, t) ==
    LET applied == ApplyReviews(m.loc.test_suite, reviews, 1, 1, <<>>)
        m1 == [m EXCEPT !.loc.test_suite = applied.scenarios,
                        !.loc.code_reviews_summary = applied.summary,
                        !.res.code_reviews = applied.summary]
        m2 == IF AvgScoreRaises(applied.summary)
              THEN fail_step(m1, ScoreTypeError, t)
              ELSE complete_step(m1, "reviews", t)
    IN [begin_step(m2, "gitops_write", t) EXCEPT !.pc = "write"]

\* Mutant: the reviews are taken in the reverse of their launch order.
after_gather_reversed(m, reviews, t) ==
    LET back == [k \in 1..Len(reviews) |-> reviews[Len(reviews) + 1 - k]]
        applied == ApplyReviews(m.loc.test_suite, back, 1, 1, <<>>)
        m1 == [m EXCEPT !.loc.test_suite = applied.scenarios,
                        !.loc.code_reviews_summary = applied.summary,
                        !.res.code_reviews = applied.summary]
    IN IF AvgScoreRaises(applied.summary)
       THEN raise_in_stage(m1, ScoreTypeError, t)
       ELSE [begin_step(complete_step(m1, "reviews", t), "gitops_write", t)
                EXCEPT !.pc = "write"]

\* Lines 286-327 after the gather: apply the reviews, finish code_review,
\* start gitops_write.
after_gather(m, reviews, t) ==
    LET applied == ApplyReviews(m.loc.test_suite, reviews, 1, 1, <<>>)
        m1 == [m EXCEPT !.loc.test_suite = applied.scenarios,
                        !.loc.code_reviews_summary = applied.summary,
                        !.res.code_reviews = applied.summary]
    IN IF AvgScoreRaises(applied.summary)
       THEN raise_in_stage(m1, ScoreTypeError, t)
       ELSE [begin_step(complete_step(m1, "reviews", t), "gitops_write", t)
                EXCEPT !.pc = "write"]

\* Lines 279-284: one review per reviewable scenario, in list order.
RECURSIVE review_tasks(_, _)
review_tasks(suite, i) ==
    IF i > Len(suite) THEN <<>>
    ELSE IF Reviewable(suite[i].playwright_code)
         THEN <<[scenario |-> i, code |-> suite[i].playwright_code,
                 state |-> "inflight", raised |-> FALSE, llm_calls |-> 0,
                 llm |-> "none",
                 value |-> ReviewDict(TRUE, 0, TRUE, <<>>, FALSE, <<>>)]>>
              \o review_tasks(suite, i + 1)
         ELSE review_tasks(suite, i + 1)

\* ------------------------------------------------------ outcomes of awaits
\* An outcome of an await names the class of the exception that left the
\* callee (exc) and its str (err).
\* stop_after_attempt(3)
JiraMaxAttempts == 3

\* The except JIRAError clause of get_issue: the exception one attempt raises.
get_issue_error(answer) ==
    IF answer = 404 THEN "ValueError"
    ELSE IF answer = 403 THEN "PermissionError"
    ELSE "RuntimeError"

\* @retry without retry= and without reraise=: every exception is retried,
\* and when the attempts are used up tenacity raises RetryError in place of
\* the exception of the last attempt.
retry_wrapper(attempt, error) ==
    IF attempt >= JiraMaxAttempts
    THEN [again |-> FALSE, error |-> "RetryError"]
    ELSE [again |-> TRUE, error |-> error]

\* What the tracker answers to a story fetch: the HTTP status of the attempt
\* that succeeded, or of the last attempt when none did; 0 when the request
\* got no answer (the connection failed).
FetchAnswers == {200, 403, 404, 500, 0}

\* JiraClient.get_issue as its caller sees it: the story, or the RetryError
\* tenacity raises after the last attempt, whose str names the class of the
\* exception of that attempt and the address of its Future.  A connection
\* error is no JIRAError: it passes the except clause and is retried as it is.
get_issue(answer) ==
    IF answer = 200 THEN [ok |-> TRUE, exc |-> "None", err |-> NoError]
    ELSE LET last == IF answer = 0 THEN "ConnectionError"
                     ELSE get_issue_error(answer)
             w == retry_wrapper(JiraMaxAttempts, last)
         IN  [ok |-> FALSE, exc |-> w.error,
              err |-> <<w.error, "[<Future at 0x.. state=finished raised ",
                        last, ">]">>]

\* AzureDevOpsClient.get_work_item.  configured: organization and project
\* are set (settings.azure_devops_org, azure_devops_project; both default to
\* None), tested before any request.  No retry: 404 is a ValueError, any
\* other error status a RuntimeError around the HTTPStatusError, and a
\* connection error (httpx.ConnectError) leaves the method as it is.
get_work_item(configured, work_item_id, answer) ==
    IF ~configured
    THEN [ok |-> FALSE, exc |-> "ValueError",
          err |-> <<"Azure DevOps Organization and Project must be configured">>]
    ELSE IF answer = 200 THEN [ok |-> TRUE, exc |-> "None", err |-> NoError]
    ELSE IF answer = 0
    THEN [ok |-> FALSE, exc |-> "ConnectError",
          err |-> <<"All connection attempts failed">>]
    ELSE IF answer = 404
    THEN [ok |-> FALSE, exc |-> "ValueError",
          err |-> <<"Work Item ">> \o work_item_id \o <<" not found">>]
    ELSE LET \* str(e) of the httpx.HTTPStatusError of raise_for_status
             http_status_error ==
                 IF answer >= 500
                 THEN <<"Server error '500 Internal Server Error' for url">>
                 ELSE IF answer = 403
                 THEN <<"Client error '403 Forbidden' for url">>
                 ELSE <<"Client error '401 Unauthorized' for url">>
         IN  [ok |-> FALSE, exc |-> "RuntimeError",
              err |-> <<"Failed to fetch Azure DevOps work item: ">>
                      \o http_status_error]

\* QAGeneratorService.generate_acceptance_criteria from its LLM call to the
\* AcceptanceCriteria object (generator.py 141-174).  Only the call is inside
\* the try block: a failed call is a RuntimeError around the error; an answer
\* whose scenario has a string for "given" is rejected by GherkinScenario(...)
\* with a pydantic ValidationError, and an answer that is a list by
\* result.get with an AttributeError.
GenerateAcOutcomes ==
    { [ok |-> TRUE, exc |-> "None", err |-> NoError],
      [ok |-> FALSE, exc |-> "RuntimeError",
       err |-> <<"Failed to generate acceptance criteria: ">> \o LlmError],
      [ok |-> FALSE, exc |-> "ValidationError",
       err |-> <<"1 validation error for GherkinScenario">>],
      [ok |-> FALSE, exc |-> "AttributeError",
       err |-> <<"'list' object has no attribute 'get'">>] }

\* What leaves QAGeneratorService.generate_test_scenarios (generator.py
\* 271-304): the RuntimeError around a failed LLM call, and from the parsing
\* of the answer, which is outside the try block, the ValueError of
\* TestScenarioType('smoke'), the ValidationError of TestStep(order='first')
\* and the AttributeError of an answer that is a list.
GenerateTestsRaises ==
    { [exc |-> "RuntimeError",
       err |-> <<"Failed to generate test scenarios: ">> \o LlmError],
      [exc |-> "ValueError",
       err |-> <<"'smoke' is not a valid TestScenarioType">>],
      [exc |-> "ValidationError",
       err |-> <<"1 validation error for TestStep">>],
      [exc |-> "AttributeError",
       err |-> <<"'list' object has no attribute 'get'">>] }

\* QAGeneratorService.generate_test_scenarios: it raises, or the suite
\* arrives with the answer of the code generation of each scenario.
GenerateTestsOutcomes(codegen, n) ==
    {[raised |-> TRUE, exc |-> e.exc, err |-> e.err, codes |-> <<>>] :
        e \in GenerateTestsRaises}
    \cup {[raised |-> FALSE, exc |-> "None", err |-> NoError, codes |-> c] :
             c \in SeqsUpTo(codegen, n)}

\* GitOpsAgent.write_test_files and git_commit_and_push: each raises, or
\* returns a dict whose "success" tells whether it did its work.
WriteError == <<"cannot write test files">>
PushError == <<"push rejected">>
WriteOutcomes ==
    { [raised |-> FALSE, success |-> TRUE, err |-> NoError],
      [raised |-> FALSE, success |-> FALSE, err |-> WriteError],
      [raised |-> TRUE, success |-> FALSE, err |-> WriteError] }
PushOutcomes ==
    { [raised |-> FALSE, success |-> TRUE, has_error |-> FALSE, err |-> NoError],
      [raised |-> FALSE, success |-> FALSE, has_error |-> TRUE, err |-> PushError],
      [raised |-> FALSE, success |-> FALSE, has_error |-> FALSE, err |-> NoError],
      [raised |-> TRUE, success |-> FALSE, has_error |-> FALSE,
       err |-> <<"git executable not found">>] }

\* Mutant: the write is made outside any try block.
unguarded_write(ok) == [raised |-> ~ok, committed |-> ok]

\* A history or audit write: `async with get_db_context() as db: db.add(row)`
\* inside try / except Exception, which logs the failure and goes on.
guarded_write(ok) == [raised |-> FALSE, committed |-> ok]

DbError == <<"database is locked">>

\* QAGeneratorService.publish_to_jira, lines 366-404 and 427-436.
publish_to_jira(ac_published, tests_published) ==
    [success |-> ac_published \/ tests_published,
     acceptance_criteria_published |-> ac_published,
     test_scenarios_published |-> tests_published]

\* Every caller and every answer of the collaborators, within the bounds.
FullEnv ==
    [issue_ids |-> IssueIds, auto_publish |-> BOOLEAN, auto_push_git |-> BOOLEAN,
     git_repo_url |-> BOOLEAN, azure_configured |-> BOOLEAN,
     fetch |-> FetchAnswers, generate_ac |-> GenerateAcOutcomes,
     generate_tests |-> GenerateTestsOutcomes(CodeGenOutcomes, MaxScenarios),
     review |-> ReviewOutcomes, write |-> WriteOutcomes, push |-> PushOutcomes,
     publish |-> BOOLEAN, db |-> BOOLEAN]

\* The deployment the overlapping invocations run in: Jira callers that
\* publish, a story that may be missing, collaborators that otherwise answer.
OverlapEnv ==
    [issue_ids |-> {<<"P", "R", "-", "1">>}, auto_publish |-> {TRUE},
     auto_push_git |-> BOOLEAN, git_repo_url |-> {TRUE},
     azure_configured |-> {TRUE}, fetch |-> {200, 404},
     generate_ac |-> {o \in GenerateAcOutcomes : o.ok},
     generate_tests |->
         {o \in GenerateTestsOutcomes({c \in CodeGenOutcomes :
                                          c.code = GeneratedCode}, 1) :
            ~o.raised},
     review |-> {o \in ReviewOutcomes : o.value.final_code = ReviewedCode
                                        /\ o.value.score_is_number},
     write |-> {o \in WriteOutcomes : ~o.raised /\ o.success},
     push |-> {o \in PushOutcomes : ~o.raised /\ o.success},
     publish |-> {TRUE}, db |-> {TRUE}]

\* The deployment the orchestrator and the full-pipeline endpoint share:
\* that of the overlapping invocations, with every answer of the LLM to the
\* two generation calls and a database that may refuse a commit.
HistoryEnv ==
    [OverlapEnv EXCEPT
        !.generate_ac = GenerateAcOutcomes,
        !.generate_tests =
            @ \cup {o \in GenerateTestsOutcomes({}, 0) : o.raised},
        !.db = BOOLEAN]

EnvOf(e) ==
    IF e = "overlap" THEN OverlapEnv
    ELSE IF e = "history" THEN HistoryEnv
    ELSE FullEnv

\* What callers pass and collaborators answer in the current deployment.
Env == EnvOf(env)

\* ----------------------------------------------------------------- actions
\* Lines 170-222: the call, up to the await of the story fetch.
Call(r) ==
    /\ pc[r] = "idle"
    /\ \E issue_id \in Env.issue_ids, auto_publish \in Env.auto_publish,
          auto_push_git \in Env.auto_push_git :
         LET a == [issue_id |-> issue_id, auto_publish |-> auto_publish,
                   auto_push_git |-> auto_push_git]
             backend == IF is_ado(issue_id) THEN "azure" ELSE "jira"
             m0 == [Frame(r) EXCEPT !.steps = <<>>,
                                    !.res = InitialResult(issue_id)]
             m1 == begin_step(m0, "fetch_story", now)
         IN /\ args' = [args EXCEPT ![r] = a]
            /\ Install(r, [m1 EXCEPT !.pc = "fetch",
                                     !.tr.calls = Append(@, <<backend, "get">>)])
    /\ UNCHANGED <<auxVars, now, ps, psExc, tasks, git_repo_url, db, env>>

\* Lines 219-239 with generator.py 118-122 and 97: the fetch returns or
\* raises; generate_acceptance_criteria is entered and asks the Jira client
\* for the story again.
FetchReturn(r) ==
    /\ pc[r] = "fetch"
    /\ \E answer \in Env.fetch, configured \in Env.azure_configured :
         LET out == IF is_ado(args[r].issue_id)
                    THEN get_work_item(configured, clean_id(args[r].issue_id),
                                       answer)
                    ELSE get_issue(answer)
         IN
         IF out.ok
         THEN LET m1 == complete_step([Frame(r) EXCEPT !.res.story = "JiraStory"],
                                      "story", now)
                  m2 == begin_step(m1, "generate_ac", now)
              IN Install(r, [m2 EXCEPT !.pc = "generate_ac",
                                       !.tr.calls = Append(@, <<"jira", "get">>)])
         ELSE Install(r, raise_in_stage(Frame(r), out.err, now))
    /\ UNCHANGED <<auxVars, now, ps, psExc, args, tasks, git_repo_url, db, env>>

\* Lines 240-253: the response arrives, generate_ac is completed and
\* generate_tests started.
generate_ac_done(m, t) ==
    LET m1 == [m EXCEPT !.res.acceptance_criteria = "AcceptanceCriteria",
                        !.res.gherkin_text = "gherkin"]
        m2 == begin_step(complete_step(m1, "criteria", t), "generate_tests", t)
    IN [m2 EXCEPT !.pc = "generate_tests"]

\* generator.py 122-149: the story fetch of generate_acceptance_criteria
\* returns or raises; the prompt is built and the LLM call is made.
GenerateAcFetchReturn(r) ==
    /\ pc[r] = "generate_ac"
    /\ \E answer \in Env.fetch :
         LET out == get_issue(answer) IN
         IF out.ok
         THEN Install(r, [Frame(r) EXCEPT !.pc = "ac_llm"])
         ELSE Install(r, raise_in_stage(Frame(r), out.err, now))
    /\ UNCHANGED <<auxVars, now, ps, psExc, args, tasks, git_repo_url, db, env>>

\* generator.py 144-195: the LLM call raises, or it returns and the criteria
\* are built from the answer, which raises when the answer has the wrong
\* shape; else the GenerationHistory row is added and its commit awaited.
GenerateAcLlmReturn(r) ==
    /\ pc[r] = "ac_llm"
    /\ \E out \in Env.generate_ac :
         IF out.ok
         THEN Install(r, [Frame(r) EXCEPT !.pc = "ac_history"])
         ELSE Install(r, raise_in_stage(Frame(r), out.err, now))
    /\ UNCHANGED <<auxVars, now, ps, psExc, args, tasks, git_repo_url, db, env>>

\* generator.py 183-205 with database.py 95-103: the commit of the row
\* succeeds, and audit_service.log is awaited with generate_ac still
\* running; or it fails, the except clause of line 204 skips the audit
\* entry and the response is returned.
GenerateAcHistory(r) ==
    /\ pc[r] = "ac_history"
    /\ \E db_ok \in Env.db :
         LET history == guarded_write(db_ok) IN
         /\ db' = IF history.committed
                  THEN Append(db, [run |-> r,
                                   by |-> "generate_acceptance_criteria"])
                  ELSE db
         /\ Install(r, IF history.raised
                       THEN raise_in_stage(Frame(r), DbError, now)
                       ELSE IF history.committed
                            THEN [Frame(r) EXCEPT !.pc = "ac_audit"]
                            ELSE generate_ac_done(Frame(r), now))
    /\ UNCHANGED <<auxVars, now, ps, psExc, args, tasks, git_repo_url, env>>

\* Lines 234-253 with generator.py 197-213 and audit.py 19-34: the audit
\* entry is committed or lost, and the response returns.
GenerateAcReturn(r) ==
    /\ pc[r] = "ac_audit"
    /\ \E audit_ok \in Env.db :
         LET audit == guarded_write(audit_ok) IN
         Install(r, IF audit.raised
                    THEN raise_in_stage(Frame(r), DbError, now)
                    ELSE generate_ac_done(Frame(r), now))
    /\ UNCHANGED <<auxVars, now, ps, psExc, args, tasks, git_repo_url, db, env>>

\* Lines 255-288 with generator.py 232-345: the suite arrives, the code_review
\* step starts and the reviews are gathered.
GenerateTestsReturn(r) ==
    /\ pc[r] = "generate_tests"
    /\ \E out \in Env.generate_tests, audit_ok \in Env.db :
         IF out.raised \/ guarded_write(audit_ok).raised
         THEN /\ Install(r, raise_in_stage(Frame(r), IF out.raised THEN out.err
                                                     ELSE DbError, now))
              /\ tasks' = tasks
         ELSE LET suite == [i \in 1..Len(out.codes) |->
                              [id |-> i,
                               playwright_code |-> generate_code(out.codes[i])]]
                  m1 == [Frame(r) EXCEPT !.loc.test_suite = suite,
                                         !.res.test_suite =
                                             [set |-> TRUE, scenarios |-> suite]]
                  m2 == begin_step(complete_step(m1, "suite", now),
                                   "code_review", now)
                  raises == \E i \in 1..Len(suite) :
                                ReviewableRaises(suite[i].playwright_code)
                  ts == IF raises THEN <<>> ELSE review_tasks(suite, 1)
              IN IF raises
                 THEN /\ Install(r, raise_in_stage(m2, AttributeError, now))
                      /\ tasks' = tasks
                 ELSE IF ts = <<>>
                 THEN /\ Install(r, after_gather(m2, <<>>, now))
                      /\ tasks' = tasks
                 ELSE /\ Install(r, [m2 EXCEPT !.pc = "code_review"])
                      /\ tasks' = [tasks EXCEPT ![r] = ts]
    /\ UNCHANGED <<auxVars, now, ps, psExc, args, git_repo_url, db, env>>

\* One gathered review returns or raises.
ReviewFinish(r, k) ==
    /\ pc[r] = "code_review"
    /\ k \in 1..Len(tasks[r])
    /\ tasks[r][k].state = "inflight"
    /\ \E out \in Env.review :
         LET rv == review(tasks[r][k].code, out)
         IN tasks' = [tasks EXCEPT ![r][k] =
                [@ EXCEPT !.state = IF rv.raised THEN "raised" ELSE "returned",
                          !.raised = rv.raised,
                          !.llm_calls = rv.llm_calls,
                          !.llm = IF rv.llm_calls = 0 THEN "none" ELSE out.kind,
                          !.value = rv.value]]
    /\ UNCHANGED <<auxVars, now, ps, psExc, objs, steps, pc, args, cur, loc, result,
                   git_repo_url, db, env, trace>>

\* The gather resumes the pipeline, lines 288-347.
ReviewsJoin(r) ==
    /\ pc[r] = "code_review"
    /\ join_ready(tasks[r])
    /\ Install(r, after_gather(Frame(r), tasks[r], now))
    /\ UNCHANGED <<auxVars, now, ps, psExc, args, tasks, git_repo_url, db, env>>

\* Lines 344-379: write_test_files returns or raises.
WriteReturn(r) ==
    /\ pc[r] = "write"
    /\ \E out \in Env.write :
         IF out.raised
         THEN Install(r, raise_in_stage(Frame(r), out.err, now))
         ELSE LET m1 == [Frame(r) EXCEPT !.loc.write_result =
                                             Dict(out.success, "write_result", out.err)]
                  m2 == complete_step(m1, "files", now)
              IN Install(r, git_stage(m2, args[r], git_repo_url, now))
    /\ UNCHANGED <<auxVars, now, ps, psExc, args, tasks, git_repo_url, db, env>>

\* Lines 362-374: git_commit_and_push returns or raises.
PushReturn(r) ==
    /\ pc[r] = "push"
    /\ \E out \in Env.push :
         IF out.raised
         THEN Install(r, raise_in_stage(Frame(r), out.err, now))
         ELSE LET error == IF out.has_error THEN out.err ELSE <<"Unknown error">>
                  m1 == [Frame(r) EXCEPT !.res.git_result =
                             Dict(out.success, "git_result",
                                  IF out.has_error THEN out.err ELSE NoError)]
                  m2 == IF out.success THEN complete_step(m1, "pushed", now)
                        ELSE fail_step(m1, error, now)
              IN Install(r, publish_stage(m2, args[r], now))
    /\ UNCHANGED <<auxVars, now, ps, psExc, args, tasks, git_repo_url, db, env>>

\* Lines 389-421: the publication returns.
PublishReturn(r) ==
    /\ pc[r] = "publish"
    /\ IF is_ado(args[r].issue_id)
       THEN \E publish_success \in Env.publish :
              LET m1 == [Frame(r) EXCEPT !.res.jira_publish_result =
                             Dict(publish_success, "Azure DevOps", NoError)]
              IN Install(r, finalize(complete_step(m1, "published", now)))
       ELSE \E ac \in Env.publish, tests \in Env.publish, audit_ok \in Env.db :
              LET m1 == [Frame(r) EXCEPT !.res.jira_publish_result =
                             Dict(publish_to_jira(ac, tests).success, "Jira", NoError)]
              IN IF guarded_write(audit_ok).raised
                 THEN Install(r, raise_in_stage(Frame(r), DbError, now))
                 ELSE Install(r, finalize(complete_step(m1, "published", now)))
    /\ UNCHANGED <<auxVars, now, ps, psExc, args, tasks, git_repo_url, db, env>>

\* Lines 452-476 with database.py 95-103: the commit of the history row
\* succeeds, and the row is in the store while session.close() is awaited;
\* or it fails, the rollback and the close change nothing, the except clause
\* of line 475 logs the failure and pipeline_result is returned.
SaveCommit(r) ==
    /\ pc[r] = "save"
    /\ \E db_ok \in Env.db :
         LET history == guarded_write(db_ok) IN
         /\ db' = IF history.committed
                  THEN Append(db, [run |-> r, by |-> "_save_pipeline_history"])
                  ELSE db
         /\ trace' = [trace EXCEPT
                         ![r].raised = history.raised,
                         ![r].returned = ~history.raised /\ ~history.committed]
         /\ pc' = [pc EXCEPT ![r] = IF history.committed THEN "save_close"
                                    ELSE "done"]
    /\ UNCHANGED <<auxVars, now, ps, psExc, objs, steps, args, cur, loc, tasks, result,
                   git_repo_url, env>>

\* Lines 438-450: _save_pipeline_history returns, the summary is logged and
\* pipeline_result is returned.
SaveReturn(r) ==
    /\ pc[r] = "save_close"
    /\ trace' = [trace EXCEPT ![r].returned = TRUE]
    /\ pc' = [pc EXCEPT ![r] = "done"]
    /\ UNCHANGED <<auxVars, now, ps, psExc, objs, steps, args, cur, loc, tasks, result,
                   git_repo_url, db, env>>

\* ------------------------------------------------------ GET /jira/story/{id}
\* What the Jira server answers to one self.jira.issue(...) call.
JiraAnswers == {200, 401, 403, 404, 500}

NoJiraRequest ==
    [status |-> "idle", issue_id |-> <<>>, attempt |-> 0, answers |-> <<>>,
     error |-> "None", http |-> 0]

\* The except clauses of the get_story endpoint.
get_story_status(error) ==
    IF error = "ValueError" THEN 404
    ELSE IF error = "PermissionError" THEN 403
    ELSE 500

\* get_story calls jira.get_issue(issue_id): the first attempt is sent.
GetStory ==
    /\ jr.status = "idle"
    /\ \E issue_id \in IssueIds :
         jr' = [NoJiraRequest EXCEPT !.status = "pending", !.issue_id = issue_id,
                                     !.attempt = 1]
    /\ UNCHANGED <<llm, wh, now, ps, psExc, pipeVars, sideVars>>

\* Jira answers the attempt in flight.
JiraAnswer ==
    /\ jr.status = "pending"
    /\ \E answer \in JiraAnswers :
         LET answers == Append(jr.answers, answer) IN
         IF answer = 200
         THEN jr' = [jr EXCEPT !.status = "returned", !.answers = answers,
                               !.http = 200]
         ELSE LET w == retry_wrapper(jr.attempt, get_issue_error(answer)) IN
              IF w.again
              THEN jr' = [jr EXCEPT !.answers = answers, !.attempt = @ + 1]
              ELSE jr' = [jr EXCEPT !.status = "raised", !.answers = answers,
                                    !.error = w.error,
                                    !.http = get_story_status(w.error)]
    /\ UNCHANGED <<llm, wh, now, ps, psExc, pipeVars, sideVars>>

\* -------------------------------------------------------------- LLM clients
\* max_retries = 3
LlmMaxRetries == 3

\* "x" in error_str, on an error message given as its tokens.
contains(s, tok) == \E i \in 1..Len(s) : s[i] = tok

\* The messages of the exceptions the provider SDK raises.
QuotaError == <<"429", "quota">>
ModelNotFoundError == <<"404", "not found">>
NotFoundQuotaError == <<"404", "429", "quota">>
ServerError == <<"500">>
UpstreamErrors == {QuotaError, ModelNotFoundError, NotFoundQuotaError, ServerError}

\* One upstream request is answered with a response whose content is JSON or
\* is not, or with an exception.
UpstreamAnswers ==
    {[ok |-> TRUE, content |-> c, err |-> NoError] : c \in {"json", "text"}}
    \cup {[ok |-> FALSE, content |-> "none", err |-> e] : e \in UpstreamErrors}

is_not_found(err) == contains(err, "404") \/ contains(err, "not found")

is_rate_limit(err) ==
    contains(err, "429") /\ (contains(err, "quota") \/ contains(err, "rate"))

\* An upstream error that is not a rate-limit error.
Fatal(err) == is_not_found(err) \/ ~is_rate_limit(err)

\* Mutant: the retry ceiling is tested before retry_count is incremented.
gemini_on_error_late_count(retry_count, err) ==
    IF is_not_found(err) THEN [retry |-> FALSE, retry_count |-> retry_count]
    ELSE IF is_rate_limit(err)
    THEN IF retry_count <= LlmMaxRetries
         THEN [retry |-> TRUE, retry_count |-> retry_count + 1]
         ELSE [retry |-> FALSE, retry_count |-> retry_count + 1]
    ELSE [retry |-> FALSE, retry_count |-> retry_count]

\* The except block of GeminiClient.generate: retry (after the sleep) or
\* raise RuntimeError.
gemini_on_error(retry_count, err) ==
    IF is_not_found(err) THEN [retry |-> FALSE, retry_count |-> retry_count]
    ELSE IF is_rate_limit(err)
    THEN IF retry_count + 1 <= LlmMaxRetries
         THEN [retry |-> TRUE, retry_count |-> retry_count + 1]
         ELSE [retry |-> FALSE, retry_count |-> retry_count + 1]
    ELSE [retry |-> FALSE, retry_count |-> retry_count]

\* One self.generate(...) request answered: the call returns the response,
\* raises RuntimeError, or sends the request again.
generate_step(provider, retry_count, answer) ==
    IF answer.ok
    THEN [next |-> "return", retry_count |-> retry_count]
    ELSE IF provider = "gemini"
    THEN LET h == gemini_on_error(retry_count, answer.err) IN
         [next |-> IF h.retry THEN "retry" ELSE "raise",
          retry_count |-> h.retry_count]
    ELSE [next |-> "raise", retry_count |-> retry_count]

NoLlmCall ==
    [status |-> "idle", provider |-> "none", method |-> "none",
     phase |-> "none", retry_count |-> 0, requests |-> 0, fatal_at |-> 0,
     only_rate_limits |-> TRUE, has_response |-> FALSE, error |-> "None"]

\* A caller awaits generate or generate_json: the first request is sent.
LlmCall ==
    /\ llm.status # "pending"
    /\ \E provider \in {"gemini", "openai"}, method \in {"generate", "generate_json"} :
         llm' = [NoLlmCall EXCEPT !.status = "pending", !.provider = provider,
                                  !.method = method, !.phase = "native"]
    /\ UNCHANGED <<jr, wh, now, ps, psExc, pipeVars, sideVars>>

\* What the call does with the answer to the request in flight.
llm_answer(c, answer) ==
    LET seen == [c EXCEPT !.requests = @ + 1,
                          !.fatal_at = IF @ = 0 /\ ~answer.ok /\ Fatal(answer.err)
                                       THEN c.requests + 1 ELSE @,
                          !.only_rate_limits =
                              @ /\ ~answer.ok /\ is_rate_limit(answer.err)
                                /\ ~is_not_found(answer.err),
                          !.has_response = answer.ok]
        \* OpenAIClient.generate_json sends its first request itself
        direct == c.provider = "openai" /\ c.method = "generate_json"
                  /\ c.phase = "native"
        g == IF direct
             THEN [next |-> IF answer.ok THEN "return" ELSE "raise",
                   retry_count |-> c.retry_count]
             ELSE generate_step(c.provider, c.retry_count, answer)
        fallback == [seen EXCEPT !.phase = "fallback", !.retry_count = 0]
    IN IF g.next = "retry" THEN [seen EXCEPT !.retry_count = g.retry_count]
       ELSE IF c.method = "generate"
       THEN IF g.next = "return" THEN [seen EXCEPT !.status = "returned"]
            ELSE [seen EXCEPT !.status = "raised", !.error = "RuntimeError",
                              !.retry_count = g.retry_count]
       ELSE IF c.phase = "native"
       THEN IF g.next = "return" /\ answer.content = "json"
            THEN [seen EXCEPT !.status = "returned"]
            ELSE fallback
       ELSE IF g.next = "raise"
       THEN [seen EXCEPT !.status = "raised", !.error = "RuntimeError",
                         !.retry_count = g.retry_count]
       ELSE IF answer.content = "json" THEN [seen EXCEPT !.status = "returned"]
       ELSE [seen EXCEPT !.status = "raised", !.error = "ValueError"]

LlmAnswer ==
    /\ llm.status = "pending"
    /\ \E answer \in UpstreamAnswers : llm' = llm_answer(llm, answer)
    /\ UNCHANGED <<jr, wh, now, ps, psExc, pipeVars, sideVars>>

\* ------------------------------------------------------- POST /jira/webhook
\* The names api/jira.py binds at module level (its imports and its router).
ModuleNames ==
    {"List", "Dict", "Any", "Optional", "APIRouter", "Depends", "HTTPException",
     "Query", "Body", "BackgroundTasks", "logger", "get_current_user",
     "get_jira_client", "check_rate_limit", "require_role", "JiraClient",
     "JiraStory", "JiraPublishRequest", "JiraPublishResponse",
     "FullPipelineRequest", "JiraPublishMode", "LLMProvider",
     "QAGeneratorService", "get_qa_generator_service", "JiraConfigRequest",
     "JiraConfigResponse", "get_db", "JiraConfiguration", "encrypt_api_key",
     "AsyncSession", "select", "router"}

\* The names handle_jira_webhook imports in its own body.
HandlerNames == {"get_db_context", "JiraConfiguration", "select"}

\* The payloads Jira delivers; "None" is an absent field.
Payloads ==
    [event : {"jira:issue_created", "jira:issue_updated", "None"},
     key : {"PR-1", "None"}, type : {"Story", "Bug"}, project : {"PR", "OPS"}]

\* settings.jira_project_key and the default_project_key of the newest
\* JiraConfiguration row ("" when unset).
ProjectKeys == {"", "PR", "OPS"}

NoPayload == [event |-> "None", key |-> "None", type |-> "None", project |-> "None"]

\* added: the tasks the last delivery scheduled; scheduled: all of them.
NoDelivery ==
    [deliveries |-> 0, payload |-> NoPayload, settings_key |-> "", db_key |-> "",
     answer |-> "none", added |-> <<>>, scheduled |-> <<>>]

\* handle_jira_webhook: the answer and the background tasks it adds.
handle_jira_webhook(payload, settings_key, db_key) ==
    IF payload.event # "jira:issue_created"
    THEN [answer |-> "ignored", add |-> <<>>]
    ELSE IF payload.key = "None"
    THEN [answer |-> "ignored", add |-> <<>>]
    ELSE IF "settings" \notin ModuleNames \cup HandlerNames
    THEN [answer |-> "500", add |-> <<>>]   \* NameError, except Exception
    ELSE LET target_project_key == IF db_key # "" THEN db_key ELSE settings_key
         IN IF target_project_key # "" /\ payload.project # target_project_key
            THEN [answer |-> "ignored", add |-> <<>>]
            ELSE IF payload.type # "Story"
            THEN [answer |-> "ignored", add |-> <<>>]
            ELSE [answer |-> "accepted", add |-> <<payload.key>>]

Deliver ==
    /\ wh.deliveries < MaxDeliveries
    /\ \E payload \in Payloads, settings_key \in ProjectKeys, db_key \in ProjectKeys :
         LET h == handle_jira_webhook(payload, settings_key, db_key) IN
         wh' = [deliveries |-> wh.deliveries + 1, payload |-> payload,
                settings_key |-> settings_key, db_key |-> db_key,
                answer |-> h.answer, added |-> h.add,
                scheduled |-> wh.scheduled \o h.add]
    /\ UNCHANGED <<jr, llm, now, ps, psExc, pipeVars, sideVars>>

\* ---------------------------------------------- PipelineStep driven directly
StepErrors == {<<"boom">>, <<"timeout">>}

PsStart ==
    /\ ps' = start(ps, now)
    /\ psExc' = FALSE
    /\ UNCHANGED <<auxVars, now, pipeVars>>

PsComplete ==
    /\ ps' = complete(ps, "payload", now)
    /\ psExc' = completeRaises(ps)
    /\ UNCHANGED <<auxVars, now, pipeVars>>

PsFail ==
    /\ \E err \in StepErrors : ps' = fail(ps, err, now)
    /\ psExc' = FALSE
    /\ UNCHANGED <<auxVars, now, pipeVars>>

PsSkip ==
    /\ ps' = skip(ps, <<"not needed">>)
    /\ psExc' = FALSE
    /\ UNCHANGED <<auxVars, now, pipeVars>>

Tick ==
    /\ now < MaxClock
    /\ now' = now + 1
    /\ UNCHANGED <<auxVars, ps, psExc, pipeVars>>

\* ---------------------------------------------------------------- TestSuite
\* TestScenarioType (the members the counts look at, and one they do not).
TestScenarioTypes == {"positive", "negative", "edge_case", "security"}

\* sum(1 for s in self.scenarios if s.type == type)
count_type(scenarios, type) ==
    Cardinality({k \in 1..Len(scenarios) : scenarios[k] = type})

\* TestSuite(scenarios=...): the four count fields default to 0 and
\* model_post_init assigns them from the list.  A scenario is its type.
TestSuite(scenarios) ==
    [scenarios        |-> scenarios,
     total_scenarios  |-> Len(scenarios),
     positive_count   |-> count_type(scenarios, "positive"),
     negative_count   |-> count_type(scenarios, "negative"),
     edge_case_count  |-> count_type(scenarios, "edge_case")]

CountFields ==
    {"total_scenarios", "positive_count", "negative_count", "edge_case_count"}

\* The operations a holder of the object has: the model is an ordinary
\* pydantic BaseModel (no validate_assignment, not frozen, no property), so
\* each one is a plain attribute or list assignment and model_post_init
\* does not run again.
SuiteSideUnchanged ==
    UNCHANGED <<jr, llm, wh, now, ps, psExc, pipeVars, gherkin, pub, fld, rq, fp>>

\* suite = TestSuite(scenarios=[...])
SuiteConstruct ==
    /\ \E ss \in SeqsUpTo(TestScenarioTypes, MaxScenarios) : tsuite' = TestSuite(ss)
    /\ SuiteSideUnchanged

\* suite.scenarios.append(scenario)
SuiteAppend ==
    /\ Len(tsuite.scenarios) < MaxScenarios
    /\ \E t \in TestScenarioTypes :
           tsuite' = [tsuite EXCEPT !.scenarios = Append(@, t)]
    /\ SuiteSideUnchanged

\* del suite.scenarios[k]
SuiteRemove ==
    /\ \E k \in 1..Len(tsuite.scenarios) :
           tsuite' = [tsuite EXCEPT !.scenarios =
                        SubSeq(@, 1, k - 1) \o SubSeq(@, k + 1, Len(@))]
    /\ SuiteSideUnchanged

\* suite.scenarios[k].type = t
SuiteSetType ==
    /\ \E k \in 1..Len(tsuite.scenarios), t \in TestScenarioTypes :
           tsuite' = [tsuite EXCEPT !.scenarios[k] = t]
    /\ SuiteSideUnchanged

\* suite.total_scenarios = n, suite.positive_count = n, ...
SuiteSetCount ==
    /\ \E f \in CountFields, n \in 0..MaxScenarios :
           tsuite' = [tsuite EXCEPT ![f] = n]
    /\ SuiteSideUnchanged

\* ---------------------------------------------------------- GherkinScenario
\* A text is a sequence of tokens; NL is the line break, and the keyword
\* tokens are the literal prefixes of the f-strings.
NL == "\n"
GivenPrefix == "  Given "
WhenPrefix == "  When "
ThenPrefix == "  Then "

\* "\n".join(lines), and sep.join(words) in general
RECURSIVE join(_, _)
join(sep, lines) ==
    IF lines = <<>> THEN <<>>
    ELSE IF Len(lines) = 1 THEN lines[1]
    ELSE lines[1] \o <<sep>> \o join(sep, Tail(lines))

\* [f"{prefix}{step}" for step in texts]
prefixed(prefix, texts) == [k \in 1..Len(texts) |-> <<prefix>> \o texts[k]]

\* The lines of the Examples table: a blank line, the heading, the header
\* row and one row per value of the first column.  examples is a sequence
\* of <<header, values>> pairs (the dict in insertion order), <<>> for None.
examples_lines(examples) ==
    IF examples = <<>> THEN <<>>
    ELSE LET headers == [k \in 1..Len(examples) |-> <<examples[k][1]>>]
             num_rows == Len(examples[1][2])
             row(i) == [k \in 1..Len(examples) |-> <<examples[k][2][i]>>]
         IN  << <<>>, <<"  Examples:">>,
                <<"    | ">> \o join(" | ", headers) \o <<" |">> >>
             \o [i \in 1..num_rows |->
                    <<"    | ">> \o join(" | ", row(i)) \o <<" |">>]

\* GherkinScenario.to_gherkin_text
to_gherkin_text(sc) ==
    LET tag_line == IF sc.tags = <<>> THEN <<>>
                    ELSE << join(" ", [k \in 1..Len(sc.tags) |-> <<"@", sc.tags[k]>>]) >>
        lines == tag_line
                 \o << <<"Scenario: ">> \o sc.title >>
                 \o prefixed(GivenPrefix, sc.given)
                 \o prefixed(WhenPrefix, sc.when)
                 \o prefixed(ThenPrefix, sc.then)
                 \o examples_lines(sc.examples)
    IN  join(NL, lines)

\* Reading a Gherkin text back: its lines, and for a keyword the texts of the
\* lines that begin with it, in order.
RECURSIVE split_lines(_)
split_lines(text) ==
    IF \A k \in 1..Len(text) : text[k] # NL THEN <<text>>
    ELSE LET k == CHOOSE i \in 1..Len(text) :
                      text[i] = NL /\ \A j \in 1..(i - 1) : text[j] # NL
         IN  <<SubSeq(text, 1, k - 1)>> \o split_lines(SubSeq(text, k + 1, Len(text)))

steps_read(text, prefix) ==
    LET lines == split_lines(text)
        hits == SelectSeq(lines, LAMBDA l : l # <<>> /\ l[1] = prefix)
    IN  [k \in 1..Len(hits) |-> Tail(hits[k])]

\* The step texts an LLM answer holds: one line, or a step with a data part
\* on a line of its own.
StepTexts ==
    {<<"user logs in">>, <<"user sees dashboard">>,
     <<"user enters">>, <<"user enters", NL, WhenPrefix, "the table">>}

GherkinScenarios ==
    [title : {<<"User can login">>},
     given : SeqsUpTo(StepTexts, MaxSteps) \ {<<>>},
     when : SeqsUpTo({<<"user logs in">>, <<"user enters">>}, MaxSteps) \ {<<>>},
     then : {<< <<"user sees dashboard">> >>},
     tags : {<<>>, <<"smoke", "positive">>},
     examples : {<<>>, << <<"role", <<"admin", "user">> >>,
                          <<"dashboard", <<"admin panel", "user home">> >> >>}]

NoGherkin ==
    [rendered |-> FALSE,
     scenario |-> [title |-> <<>>, given |-> <<>>, when |-> <<>>, then |-> <<>>,
                   tags |-> <<>>, examples |-> <<>>],
     text |-> <<>>]

\* text = scenario.to_gherkin_text()
GherkinRender ==
    /\ \E sc \in GherkinScenarios :
           gherkin' = [rendered |-> TRUE, scenario |-> sc, text |-> to_gherkin_text(sc)]
    /\ UNCHANGED <<jr, llm, wh, now, ps, psExc, pipeVars, tsuite, pub, fld, rq, fp>>

\* ------------------------------------------------------ JiraClient.publish_*
\* JiraPublishMode
JiraPublishModes ==
    {"subtask", "comment", "custom_field", "description", "environment",
     "xray", "zephyr"}

\* e.text of a JIRAError (an HTTP answer that is an error), and str(e) of
\* the error of the connection itself, which is not a JIRAError.
JiraApiError == <<"HTTP 400">>
ConnectionError == <<"ConnectionError", "connection", "aborted">>

\* str(e) of the RuntimeError a helper raises in place of the JIRAError:
\* update_description, add_comment, update_custom_field and
\* update_environment_field by publication mode, and create_subtask.
write_error(mode) ==
    CASE mode = "description" -> <<"Failed to update description: ">> \o JiraApiError
      [] mode = "comment" -> <<"Failed to add comment: ">> \o JiraApiError
      [] mode = "custom_field" -> <<"Failed to update custom field: ">> \o JiraApiError
      [] mode = "environment" -> <<"Failed to update environment field: ">> \o JiraApiError
SubtaskError == <<"Failed to create subtask: ">> \o JiraApiError

\* What the one write of a single-write branch does (update_description,
\* add_comment, update_custom_field, update_environment_field).
WriteOps == {"ok", "error"}

\* What Jira does for one scenario of the SUBTASK branch: create_subtask
\* raises, or returns a key and then transition_issue finds and performs
\* the transition ("done"), finds none ("unavailable"), gets a JIRAError
\* ("jira_error"), or loses the connection ("connection_error").
SubtaskOutcomes ==
    {[create |-> "error", transition |-> "none"]} \cup
    [create : {"ok"},
     transition : {"done", "unavailable", "jira_error", "connection_error"}]

\* JiraClient.transition_issue: TRUE / FALSE returned, or "raise".
transition_issue(outcome) ==
    CASE outcome = "done" -> "True"
      [] outcome = "unavailable" -> "False"
      [] outcome = "jira_error" -> "False"
      [] OTHER -> "raise"

\* op, mode, n: the call; i: scenarios the SUBTASK loop has done; success,
\* location, created_issues, comments, error: the result dict; subtasks,
\* statuses and written: the sub-issues Jira holds because of the call, the
\* workflow status each is in, and the writes Jira took.
NoPublish ==
    [status |-> "idle", op |-> "none", mode |-> "none", n |-> 0, i |-> 0,
     success |-> FALSE, location |-> "None", created_issues |-> <<>>,
     comments |-> 0, error |-> NoError, subtasks |-> 0, statuses |-> <<>>,
     written |-> 0, create_failed |-> FALSE]

\* JiraClient.publish_acceptance_criteria(issue_id, criteria, mode)
publish_acceptance_criteria(mode, write) ==
    LET call == [NoPublish EXCEPT !.status = "done", !.op = "ac", !.mode = mode]
        handled == mode \in {"description", "comment", "custom_field", "environment"}
    IN  IF handled /\ write = "error"
        THEN [call EXCEPT !.error = write_error(mode)]
        ELSE [call EXCEPT !.success = TRUE,
                          !.location =
                              CASE mode = "description" -> "description"
                                [] mode = "comment" -> "comment:{comment_id}"
                                [] mode = "custom_field" -> "field:{field_id}"
                                [] mode = "environment" -> "environment"
                                [] OTHER -> "None",
                          !.written = IF handled THEN 1 ELSE 0]

\* JiraClient.publish_test_scenarios(issue_id, test_suite, mode), up to the
\* first scenario of the SUBTASK loop.
publish_test_scenarios(mode, n, write) ==
    LET call == [NoPublish EXCEPT !.status = "done", !.op = "tests",
                                  !.mode = mode, !.n = n]
    IN  CASE mode = "subtask" /\ n > 0 -> [call EXCEPT !.status = "running"]
          [] mode = "comment" /\ write = "error" ->
                 [call EXCEPT !.error = write_error(mode)]
          [] mode = "comment" /\ write = "ok" ->
                 [call EXCEPT !.success = TRUE, !.comments = 1, !.written = 1]
          [] OTHER -> [call EXCEPT !.success = TRUE]

\* One pass of the loop over test_suite.scenarios in the SUBTASK branch.
subtask_pass(p, out) ==
    IF out.create = "error"
    THEN [p EXCEPT !.status = "done", !.error = SubtaskError,
                   !.create_failed = TRUE]
    ELSE LET made == [p EXCEPT
                         !.subtasks = @ + 1, !.written = @ + 1,
                         !.statuses = Append(@, IF out.transition = "done"
                                                THEN "Automation Script"
                                                ELSE "To Do")]
         IN  IF transition_issue(out.transition) = "raise"
             THEN [made EXCEPT !.status = "done", !.error = ConnectionError]
             ELSE LET rec == [made EXCEPT
                                 !.i = @ + 1,
                                 !.created_issues =
                                     Append(@, [test_id |-> p.i + 1,
                                                status |-> "Automation Script"])]
                  IN  IF rec.i = rec.n
                      THEN [rec EXCEPT !.status = "done", !.success = TRUE]
                      ELSE rec

PubSideUnchanged ==
    UNCHANGED <<jr, llm, wh, now, ps, psExc, pipeVars, tsuite, gherkin, fld, rq, fp>>

PublishAcCall ==
    /\ pub.status # "running"
    /\ \E mode \in JiraPublishModes, write \in WriteOps :
           pub' = publish_acceptance_criteria(mode, write)
    /\ PubSideUnchanged

PublishTestsCall ==
    /\ pub.status # "running"
    /\ \E mode \in JiraPublishModes, n \in 0..MaxScenarios, write \in WriteOps :
           pub' = publish_test_scenarios(mode, n, write)
    /\ PubSideUnchanged

PublishSubtask ==
    /\ pub.status = "running"
    /\ \E out \in SubtaskOutcomes : pub' = subtask_pass(pub, out)
    /\ PubSideUnchanged

\* ------------------------------- JiraClient.get_or_create_automation_field
\* A field name is a sequence of words and blanks.  str.lower() per word:
LowerWord ==
    [w \in {"Automation", "AUTOMATION", "automation", "Script", "SCRIPT",
            "script", "Scripts", "Summary", " "} |->
        CASE w \in {"Automation", "AUTOMATION", "automation"} -> "automation"
          [] w \in {"Script", "SCRIPT", "script"} -> "script"
          [] w = "Scripts" -> "scripts"
          [] w = "Summary" -> "summary"
          [] OTHER -> " "]

lower(name) == [k \in 1..Len(name) |-> LowerWord[name[k]]]

\* str.strip()
RECURSIVE strip(_)
strip(name) ==
    IF name = <<>> THEN name
    ELSE IF name[1] = " " THEN strip(Tail(name))
    ELSE IF name[Len(name)] = " " THEN strip(SubSeq(name, 1, Len(name) - 1))
    ELSE name

AutomationScript == <<"Automation", " ", "Script">>
normalized_target == <<"automation", " ", "script">>

\* The names a Jira site can hold before the client's first call.
FieldNames ==
    {AutomationScript, <<"AUTOMATION", " ", "SCRIPT", " ">>,
     <<"Automation", " ", "Scripts">>, <<"Summary">>}

MaxFields == 2  \* custom fields the site holds before the first call

Min(S) == CHOOSE x \in S : \A y \in S : x <= y

\* The id of the first field of the listing the two loops accept, 0 for
\* none; a field's id is its place in the site's list.
find_field(fields) ==
    LET exact == {k \in 1..Len(fields) : fields[k] = AutomationScript}
        loose == {k \in 1..Len(fields) :
                     strip(lower(fields[k])) = normalized_target}
    IN  IF exact # {} THEN Min(exact)
        ELSE IF loose # {} THEN Min(loose)
        ELSE 0

\* site: the fields of the Jira site; cache: self._automation_field_id (0 for
\* None); pc, ret: each call's position and what it returned (0 for None);
\* posts: the field-creation requests sent, each with the id find_field gave
\* for the listing it followed; created: the fields the site made for them.
NoFields ==
    [site |-> <<>>, cache |-> 0,
     pc |-> [c \in Runs |-> "idle"], ret |-> [c \in Runs |-> 0],
     posts |-> <<>>, created |-> 0]

FldSideUnchanged ==
    UNCHANGED <<jr, llm, wh, now, ps, psExc, pipeVars, tsuite, gherkin, pub, rq, fp>>

\* The site's administrator adds a custom field, before the client is used.
FieldConfigured ==
    /\ \A c \in Runs : fld.pc[c] = "idle"
    /\ Len(fld.site) < MaxFields
    /\ \E name \in FieldNames : fld' = [fld EXCEPT !.site = Append(@, name)]
    /\ FldSideUnchanged

\* get_or_create_automation_field from its call to its return or to the
\* await of self.http.post; listing raises when the connection fails.
FieldCall(c) ==
    /\ fld.pc[c] = "idle"
    /\ \E listing \in {"ok", "error"} :
           LET found == find_field(fld.site)
           IN  fld' =
                 IF fld.cache # 0
                 THEN [fld EXCEPT !.pc[c] = "done", !.ret[c] = fld.cache]
                 ELSE IF listing = "error"
                 THEN [fld EXCEPT !.pc[c] = "done", !.ret[c] = 0]
                 ELSE IF found # 0
                 THEN [fld EXCEPT !.pc[c] = "done", !.ret[c] = found,
                                  !.cache = found]
                 ELSE [fld EXCEPT !.pc[c] = "posting",
                                  !.posts = Append(@, found)]
    /\ FldSideUnchanged

\* The answer to POST /rest/api/3/field: 201 with the new field, another
\* status, or an exception of the HTTP client.
FieldPostAnswer(c) ==
    /\ fld.pc[c] = "posting"
    /\ \E answer \in {"201", "403", "error"} :
           fld' =
             IF answer = "201"
             THEN [fld EXCEPT !.site = Append(@, AutomationScript),
                              !.created = @ + 1,
                              !.cache = Len(fld.site) + 1,
                              !.pc[c] = "done", !.ret[c] = Len(fld.site) + 1]
             ELSE [fld EXCEPT !.pc[c] = "done", !.ret[c] = 0]
    /\ FldSideUnchanged

\* ------------------------------------------ GET /jira/story: dependencies
\* settings.jira_url (the default, or a site's) and settings.jira_api_token
\* (the default "", the sample value of the env file, or a token).
DefaultJiraUrl == <<"https://", "your-instance", ".atlassian.net">>
SiteJiraUrl == <<"https://", "acme", ".atlassian.net">>
JiraUrls == {DefaultJiraUrl, SiteJiraUrl}
JiraTokens == {<<>>, <<"your-jira-api-token">>, <<"secret">>}

\* The newest JiraConfiguration row: none, one whose token decrypts, or one
\* whose token does not (decrypt_api_key raises and the settings token stays).
DbConfigs ==
    {[row |-> FALSE, url |-> <<>>, decrypts |-> FALSE]} \cup
    [row : {TRUE}, url : JiraUrls, decrypts : BOOLEAN]

\* The Authorization header: none, a token verify_token rejects, a valid one.
Bearers == {"none", "invalid", "valid"}

\* deps.get_jira_client: the status of the HTTPException or of the unhandled
\* exception it ends with ("ok" when it returns a client).  JiraClient.__init__
\* takes url, email and api_token only, so the call with project_key= raises
\* TypeError, which the application's handler for Exception answers with 500.
get_jira_client(db_up, db_config, settings_url, settings_token) ==
    LET url == IF db_config.row THEN db_config.url ELSE settings_url
        token == IF db_config.row /\ db_config.decrypts
                 THEN <<"secret">> ELSE settings_token
        url_ok == url # <<>> /\ ~contains(url, "your-instance")
        token_ok == token # <<>> /\ ~contains(token, "your-jira-api-token")
    IN  IF ~db_up THEN "500"
        ELSE IF ~(url_ok /\ token_ok) THEN "503"
        ELSE "500"

\* deps.get_current_user
get_current_user(bearer) == IF bearer = "valid" THEN "ok" ELSE "401"

\* deps.check_rate_limit
check_rate_limit(allowed) == IF allowed THEN "ok" ELSE "429"

\* The parameters of get_story that are dependencies, in the order of its
\* signature, which is the order FastAPI resolves them in.
GetStoryDependencies == <<"get_jira_client", "get_current_user", "check_rate_limit">>

\* What dependency d answers for request q.
dependency(d, q) ==
    CASE d = "get_jira_client" ->
             get_jira_client(q.db_up, q.db_config, q.settings_url, q.settings_token)
      [] d = "get_current_user" -> get_current_user(q.bearer)
      [] OTHER -> check_rate_limit(q.allowed)

\* solve_dependencies: the first dependency that raises decides the answer;
\* "handler" when all returned and get_story itself runs.
RECURSIVE solve_dependencies(_, _)
solve_dependencies(deps, q) ==
    IF deps = <<>> THEN [status |-> "handler", resolved |-> <<>>]
    ELSE LET a == dependency(deps[1], q)
         IN  IF a # "ok" THEN [status |-> a, resolved |-> <<deps[1]>>]
             ELSE LET rest == solve_dependencies(Tail(deps), q)
                  IN  [status |-> rest.status,
                       resolved |-> <<deps[1]>> \o rest.resolved]

Requests ==
    [bearer : Bearers, db_up : BOOLEAN, db_config : DbConfigs,
     settings_url : JiraUrls, settings_token : JiraTokens, allowed : BOOLEAN]

NoRequest ==
    [requests |-> 0,
     request |-> [bearer |-> "none", db_up |-> TRUE,
                  db_config |-> [row |-> FALSE, url |-> <<>>, decrypts |-> FALSE],
                  settings_url |-> DefaultJiraUrl, settings_token |-> <<>>,
                  allowed |-> TRUE],
     status |-> "None", resolved |-> <<>>]

\* One GET /api/v1/jira/story/{issue_id}.
StoryRequest ==
    /\ rq.requests < MaxRequests
    /\ \E q \in Requests :
           LET a == solve_dependencies(GetStoryDependencies, q)
           IN  rq' = [requests |-> rq.requests + 1, request |-> q,
                      status |-> a.status, resolved |-> a.resolved]
    /\ UNCHANGED <<jr, llm, wh, now, ps, psExc, pipeVars, tsuite, gherkin, pub, fld, fp>>

\* ------------------------------- QAGeneratorService.run_full_pipeline
\* POST /generate/full-pipeline, the other writer of the history store.
\* pc: the await the request is suspended at; steps_completed: the local
\* list; status: the HTTP status of the answer.
NoFullPipeline ==
    [pc |-> "idle", generate_tests |-> FALSE, auto_publish |-> FALSE,
     steps_completed |-> <<>>, status |-> "None"]

FullPipelineFrame ==
    UNCHANGED <<jr, llm, wh, now, ps, psExc, objs, steps, pc, args, cur, loc,
                tasks, result, git_repo_url, env, trace, tsuite, gherkin, pub,
                fld, rq>>

\* api/generate.py 155-168 and main.py 234-246: a ValueError, which a
\* pydantic ValidationError is, is answered 400; a RuntimeError and every
\* error no except clause names (RetryError, AttributeError) 500.
full_pipeline_raise(p, exc) ==
    [p EXCEPT !.pc = "done",
              !.status = IF exc \in {"ValueError", "ValidationError"}
                         THEN "400" ELSE "500"]

\* Lines 471-478 and 489-490: what follows a stage that returned.
full_pipeline_after(p, stage) ==
    [p EXCEPT !.steps_completed = Append(@, stage),
              !.pc = IF stage = "generate_acceptance_criteria" /\ p.generate_tests
                     THEN "generate_test_scenarios"
                     ELSE IF stage # "publish_to_jira" /\ p.auto_publish
                     THEN "publish_to_jira"
                     ELSE "save"]

\* The request arrives, up to the await of fetch_story.
FullPipelineCall ==
    /\ fp.pc = "idle"
    /\ \E generate_tests \in BOOLEAN, auto_publish \in BOOLEAN :
           fp' = [NoFullPipeline EXCEPT !.pc = "fetch_story",
                                        !.generate_tests = generate_tests,
                                        !.auto_publish = auto_publish]
    /\ FullPipelineFrame /\ UNCHANGED db

\* fetch_story returns or raises: the one of line 461, then the one
\* generate_acceptance_criteria makes itself (line 119).
FullPipelineFetchReturn ==
    /\ fp.pc \in {"fetch_story", "ac_fetch_story"}
    /\ \E answer \in Env.fetch :
           LET out == get_issue(answer) IN
           fp' = IF ~out.ok THEN full_pipeline_raise(fp, out.exc)
                 ELSE IF fp.pc = "fetch_story"
                 THEN [fp EXCEPT !.steps_completed = Append(@, "fetch_story"),
                                 !.pc = "ac_fetch_story"]
                 ELSE [fp EXCEPT !.pc = "ac_llm"]
    /\ FullPipelineFrame /\ UNCHANGED db

\* The LLM call of generate_acceptance_criteria returns or raises, and the
\* criteria are built from the answer or the answer is rejected.
FullPipelineAcLlmReturn ==
    /\ fp.pc = "ac_llm"
    /\ \E out \in Env.generate_ac :
           fp' = IF out.ok THEN [fp EXCEPT !.pc = "ac_history"]
                 ELSE full_pipeline_raise(fp, out.exc)
    /\ FullPipelineFrame /\ UNCHANGED db

\* generate_acceptance_criteria commits its history row (lines 183-196);
\* a failed commit skips the audit call of the same try block.
FullPipelineAcHistory ==
    /\ fp.pc = "ac_history"
    /\ \E db_ok \in Env.db :
           LET history == guarded_write(db_ok) IN
           /\ db' = IF history.committed
                    THEN Append(db, [run |-> 0, by |-> "generate_acceptance_criteria"])
                    ELSE db
           /\ fp' = IF history.committed THEN [fp EXCEPT !.pc = "ac_audit"]
                    ELSE full_pipeline_after(fp, "generate_acceptance_criteria")
    /\ FullPipelineFrame

\* The audit call returns and generate_acceptance_criteria with it.
FullPipelineAcReturn ==
    /\ fp.pc = "ac_audit"
    /\ fp' = full_pipeline_after(fp, "generate_acceptance_criteria")
    /\ FullPipelineFrame /\ UNCHANGED db

\* generate_test_scenarios returns or raises (lines 475-484).
FullPipelineTestsReturn ==
    /\ fp.pc = "generate_test_scenarios"
    /\ \E out \in Env.generate_tests :
           fp' = IF out.raised THEN full_pipeline_raise(fp, out.exc)
                 ELSE full_pipeline_after(fp, "generate_test_scenarios")
    /\ FullPipelineFrame /\ UNCHANGED db

\* publish_to_jira returns (lines 488-497); it raises nothing.
FullPipelinePublishReturn ==
    /\ fp.pc = "publish_to_jira"
    /\ fp' = full_pipeline_after(fp, "publish_to_jira")
    /\ FullPipelineFrame /\ UNCHANGED db

\* run_full_pipeline commits its own history row (lines 508-524); a failed
\* commit is logged and the response is returned.
FullPipelineSave ==
    /\ fp.pc = "save"
    /\ \E db_ok \in Env.db :
           LET history == guarded_write(db_ok) IN
           /\ db' = IF history.committed
                    THEN Append(db, [run |-> 0, by |-> "run_full_pipeline"])
                    ELSE db
           /\ fp' = IF history.committed THEN [fp EXCEPT !.pc = "save_audit"]
                    ELSE [fp EXCEPT !.pc = "done", !.status = "200"]
    /\ FullPipelineFrame

\* The audit call returns and the response is sent (lines 526-550).
FullPipelineReturn ==
    /\ fp.pc = "save_audit"
    /\ fp' = [fp EXCEPT !.pc = "done", !.status = "200"]
    /\ FullPipelineFrame /\ UNCHANGED db

\* ----------------------------------------------------------- specifications
Start(e) ==
    /\ now = 1
    /\ ps = PipelineStep("step")
    /\ psExc = FALSE
    /\ objs = <<>>
    /\ steps = <<>>
    /\ pc = [r \in Runs |-> "idle"]
    /\ args = [r \in Runs |-> NoArgs]
    /\ cur = [r \in Runs |-> 0]
    /\ loc = [r \in Runs |-> NoLocals]
    /\ tasks = [r \in Runs |-> <<>>]
    /\ result = [r \in Runs |-> InitialResult(<<>>)]
    /\ git_repo_url \in EnvOf(e).git_repo_url
    /\ db = <<>>
    /\ env = e
    /\ trace = [r \in Runs |-> NoTrace]
    /\ jr = NoJiraRequest
    /\ llm = NoLlmCall
    /\ wh = NoDelivery
    /\ tsuite = TestSuite(<<>>)
    /\ gherkin = NoGherkin
    /\ pub = NoPublish
    /\ fld = NoFields
    /\ rq = NoRequest
    /\ fp = NoFullPipeline

Init == Start("full")

InitOverlap == Start("overlap")

InitHistory == Start("history")

Pipeline(r) ==
    \/ Call(r)
    \/ FetchReturn(r)
    \/ GenerateAcFetchReturn(r)
    \/ GenerateAcLlmReturn(r)
    \/ GenerateAcHistory(r)
    \/ GenerateAcReturn(r)
    \/ GenerateTestsReturn(r)
    \/ \E k \in 1..MaxScenarios : ReviewFinish(r, k)
    \/ ReviewsJoin(r)
    \/ WriteReturn(r)
    \/ PushReturn(r)
    \/ PublishReturn(r)
    \/ SaveCommit(r)
    \/ SaveReturn(r)

\* One invocation on a fresh OrchestratorAgent, as every caller makes it.
Next == Pipeline(1)

Spec == Init /\ [][Next]_vars

\* Overlapping invocations on one OrchestratorAgent instance.
NextOverlap == \E r \in Runs : Pipeline(r)

SpecOverlap == InitOverlap /\ [][NextOverlap]_vars

\* A PipelineStep under every sequence of start, complete, fail and skip.
NextStep == PsStart \/ PsComplete \/ PsFail \/ PsSkip \/ Tick

SpecStep == Init /\ [][NextStep]_vars

\* One GET /jira/story/{issue_id} request.
NextJira == GetStory \/ JiraAnswer

SpecJira == Init /\ [][NextJira]_vars

\* The calls on an LLM client.  A request in flight is answered in the end
\* (the SDK returns or raises, asyncio.sleep ends).
NextLlm == LlmCall \/ LlmAnswer

SpecLlm == Init /\ [][NextLlm]_vars /\ WF_vars(LlmAnswer)

\* The deliveries of the Jira webhook.
NextWebhook == Deliver

SpecWebhook == Init /\ [][NextWebhook]_vars

\* A TestSuite under construction and every later assignment.
NextSuite ==
    SuiteConstruct \/ SuiteAppend \/ SuiteRemove \/ SuiteSetType \/ SuiteSetCount

SpecSuite == Init /\ [][NextSuite]_vars

\* The scenarios rendered to Gherkin text.
NextGherkin == GherkinRender

SpecGherkin == Init /\ [][NextGherkin]_vars

\* The calls of JiraClient.publish_acceptance_criteria and
\* publish_test_scenarios.
NextPublish == PublishAcCall \/ PublishTestsCall \/ PublishSubtask

SpecPublish == Init /\ [][NextPublish]_vars

\* The calls of get_or_create_automation_field on one JiraClient.
NextField ==
    \/ FieldConfigured
    \/ \E c \in Runs : FieldCall(c) \/ FieldPostAnswer(c)

SpecField == Init /\ [][NextField]_vars

\* The requests to GET /jira/story/{issue_id}.
NextRequest == StoryRequest

SpecRequest == Init /\ [][NextRequest]_vars

\* One invocation of the orchestrator beside one full-pipeline request of
\* the service, both writing the history store.
FullPipeline ==
    \/ FullPipelineCall
    \/ FullPipelineFetchReturn
    \/ FullPipelineAcLlmReturn
    \/ FullPipelineAcHistory
    \/ FullPipelineAcReturn
    \/ FullPipelineTestsReturn
    \/ FullPipelinePublishReturn
    \/ FullPipelineSave
    \/ FullPipelineReturn

NextHistory == Pipeline(1) \/ FullPipeline

SpecHistory == InitHistory /\ [][NextHistory]_vars

\* ------------------------------------------------------------------ claims
\* The i-th step object invocation r created.
StepOf(r, i) == objs[trace[r].created[i]]

NCreated(r) == Len(trace[r].created)

StageOrder ==
    <<"fetch_story", "generate_ac", "generate_tests", "code_review",
      "gitops_write", "gitops_push", "publish_results">>

RequiredStages ==
    {"fetch_story", "generate_ac", "generate_tests", "code_review", "gitops_write"}

\* The artifact of every completed stage is in pipeline_result.
ArtifactsKept(r) ==
    LET created == trace[r].created IN
    \A i \in 1..Len(created) :
        LET s == objs[created[i]] IN
        s.status = "completed" =>
            /\ s.name = "fetch_story" => result[r].story # "None"
            /\ s.name = "generate_ac" =>
                   /\ result[r].acceptance_criteria # "None"
                   /\ result[r].gherkin_text # "None"
            /\ s.name = "generate_tests" => result[r].test_suite.set
            /\ s.name = "code_review" =>
                   result[r].code_reviews = loc[r].code_reviews_summary

\* C1: when a stage raises, the step running at that moment ends failed with
\* the exception message as its error, it stays the last step created, the
\* artifacts of the completed stages stay in the result, and the call returns
\* success=false without raising.
C1_ExceptionCaptured ==
    \A r \in Runs :
        trace[r].caught =>
            /\ trace[r].running_at_raise = {trace[r].created[NCreated(r)]}
            /\ \A id \in trace[r].running_at_raise :
                   /\ objs[id].status = "failed"
                   /\ objs[id].error = trace[r].exc
            /\ ArtifactsKept(r)
            /\ ~result[r].success
            /\ ~trace[r].raised
            /\ pc[r] \in {"save", "save_close", "done"}
            /\ pc[r] = "done" => trace[r].returned

\* C1 witness: a run that returned after its code_review stage raised, with
\* the three earlier stages completed.
C1_Witness ==
    /\ pc[1] = "done"
    /\ trace[1].caught
    /\ NCreated(1) = 4
    /\ StepOf(1, 4).status = "failed"
    /\ StepOf(1, 3).status = "completed"

\* C2: once a PipelineStep is completed, failed or skipped, no later call of
\* start, complete, fail or skip changes its status.
C2_TerminalIsFinal == [][ps.status \in Terminal => ps'.status = ps.status]_vars

\* C3: the steps of a run are created in the fixed stage order, none repeated
\* or out of order, and a step exists after a required step only when that
\* required step is completed.
C3_StagesInOrder ==
    \A r \in Runs :
        LET created == trace[r].created IN
        /\ Len(created) <= Len(StageOrder)
        /\ \A i \in 1..Len(created) :
               LET s == objs[created[i]] IN
               /\ s.name = StageOrder[i]
               /\ (i < Len(created) /\ s.name \in RequiredStages) =>
                      s.status = "completed"

\* C3 witness: all seven steps exist and the publication is running.
C3_Witness ==
    /\ NCreated(1) = 7
    /\ StepOf(1, 7).status = "running"
    /\ StepOf(1, 6).status = "completed"

\* C4 as stated: a failed step is never followed by another step of the run.
C4_FailedIsLast ==
    \A r \in Runs : \A i \in 1..NCreated(r), j \in 1..NCreated(r) :
        i < j => StepOf(r, i).status # "failed"

\* C4 amended: a step that failed is followed by another step only when it is
\* the gitops_push step and it failed because git_commit_and_push reported
\* no success (no exception was raised); a step that failed because its stage
\* raised is the last step, and the artifacts of the completed stages stay.
C4_OnlyPushFailureContinues ==
    \A r \in Runs :
        LET created == trace[r].created IN
        /\ \A i \in 1..(Len(created) - 1) :
               LET s == objs[created[i]] IN
               s.status = "failed" =>
                   /\ s.name = "gitops_push"
                   /\ created[i] \notin trace[r].running_at_raise
                   /\ s.error \in {PushError, <<"Unknown error">>}
        /\ (\E i \in 1..Len(created) : objs[created[i]].status = "failed") =>
               ArtifactsKept(r)

\* C4 witness: gitops_push failed and publish_results was started after it.
C4_Witness ==
    /\ NCreated(1) = 7
    /\ StepOf(1, 6).status = "failed"
    /\ StepOf(1, 7).status \in {"running", "completed"}

\* C5: _save_pipeline_history is called exactly once per invocation, on both
\* paths, and no step changes after the call: the steps listed when it was
\* called are the steps as they are when the call returns.
C5_SavedOnceAtEnd ==
    \A r \in Runs :
        LET save_calls == trace[r].save_calls IN
        /\ save_calls <= 1
        /\ pc[r] \in {"save", "save_close", "done"} <=> save_calls = 1
        /\ save_calls = 1 =>
               LET listed == result[r].steps
                   snapshot == trace[r].snapshot
                   created == trace[r].created
               IN  /\ Len(listed) = Len(snapshot)
                   /\ \A i \in 1..Len(snapshot) :
                          listed[i] = to_dict(objs[snapshot[i]])
                   /\ \A i \in 1..Len(created) :
                          objs[created[i]].status \in Terminal

\* C5 witness: a run that returned on the exception path.
C5_Witness ==
    /\ pc[1] = "done"
    /\ trace[1].caught
    /\ trace[1].save_calls = 1
    /\ NCreated(1) >= 2

RowsOf(r) == {k \in 1..Len(db) : db[k].run = r}

\* C6: an invocation whose history write succeeds leaves exactly one
\* GenerationHistory row, and no row is written by a stage.
C6_OneHistoryRow ==
    /\ \A r \in Runs : \A k \in RowsOf(r) : db[k].by = "_save_pipeline_history"
    /\ \A r \in Runs :
           (pc[r] = "done" /\ \E k \in RowsOf(r) : db[k].by = "_save_pipeline_history")
               => Cardinality(RowsOf(r)) = 1

Joined(r) ==
    /\ NCreated(r) >= 4
    /\ pc[r] \in {"write", "push", "publish", "save", "save_close", "done"}

FailedReview(t) == t.raised \/ ~t.value.score_is_number
                   \/ (t.value.issues_found # <<>>
                       /\ t.value.issues_found[1] = "Review agent error: ")

\* C7: after the fan-out the code_review step is completed, every scenario is
\* still in the suite, a scenario whose review failed keeps its code and a
\* scenario whose review succeeded has the code of its own review.
C7_ReviewFailuresIsolated ==
    \A r \in Runs :
        Joined(r) =>
            /\ StepOf(r, 4).status = "completed"
            /\ Len(loc[r].test_suite) = Len(result[r].test_suite.scenarios)
            /\ \A k \in 1..Len(tasks[r]) :
                   LET t == tasks[r][k]
                       sc == loc[r].test_suite[t.scenario]
                   IN IF FailedReview(t)
                      THEN sc.playwright_code = t.code
                      ELSE sc.playwright_code =
                               IF t.value.final_code # <<>> THEN t.value.final_code
                               ELSE t.code

\* C8: while a gathered review is in flight the run is suspended in the
\* code_review stage: the step is running and no later step exists.
C8_JoinWaitsForAll ==
    \A r \in Runs : \A k \in 1..Len(tasks[r]) :
        tasks[r][k].state = "inflight" =>
            /\ pc[r] = "code_review"
            /\ NCreated(r) = 4
            /\ StepOf(r, 4).status = "running"

\* C8 witness: gitops_write runs after two reviews that both returned, the
\* first after its LLM call failed.
C8_Witness ==
    /\ pc[1] = "write"
    /\ Len(tasks[1]) = 2
    /\ tasks[1][1].state = "returned"
    /\ tasks[1][1].llm = "error"
    /\ tasks[1][2].state = "returned"
    /\ StepOf(1, 4).status = "completed"

\* C9: the steps an invocation lists are exactly the steps it created, and
\* the step its exception handler marks failed is one of its own.
C9_RunsOwnTheirSteps ==
    \A r \in Runs :
        /\ pc[r] = "done" => trace[r].snapshot = trace[r].created
        /\ trace[r].marked # 0 =>
               \E i \in 1..NCreated(r) : trace[r].created[i] = trace[r].marked

\* C10: with a push requested and no git_repo_url, a run that completed
\* gitops_write has a gitops_push step that is skipped with a non-empty
\* reason, and the step is listed so in the result.
C10_PushSkippedWithoutRepo ==
    \A r \in Runs :
        (args[r].auto_push_git /\ ~git_repo_url /\ NCreated(r) >= 5
         /\ StepOf(r, 5).status = "completed") =>
            /\ NCreated(r) >= 6
            /\ StepOf(r, 6).name = "gitops_push"
            /\ StepOf(r, 6).status = "skipped"
            /\ StepOf(r, 6).error # NoError
            /\ pc[r] = "done" =>
                   /\ result[r].steps[6].name = "gitops_push"
                   /\ result[r].steps[6].status = "skipped"
                   /\ result[r].steps[6].error # NoError

\* C10 witness: such a run returned with success=true.
C10_Witness ==
    /\ pc[1] = "done"
    /\ args[1].auto_push_git
    /\ ~git_repo_url
    /\ result[1].success
    /\ StepOf(1, 6).status = "skipped"

\* Where the steps list the run returned holds a publish_results step.
PublishStepListed(r) ==
    {i \in 1..Len(result[r].steps) : result[r].steps[i].name = "publish_results"}

\* C11: a run that passed the git stage with auto_publish=false returns a
\* steps list holding a publish_results step that is skipped with a reason.
C11_PublishSkippedListed ==
    \A r \in Runs :
        (pc[r] = "done" /\ ~args[r].auto_publish /\ NCreated(r) >= 6
         /\ StepOf(r, 6).status \in Terminal) =>
            \E i \in PublishStepListed(r) :
                /\ result[r].steps[i].status = "skipped"
                /\ result[r].steps[i].error # NoError

\* C12: when the publication reports no success the publish_results step
\* ends failed, and the finalization still runs.
C12_PublishFailureFailsStep ==
    \A r \in Runs :
        (result[r].jira_publish_result.set
         /\ ~result[r].jira_publish_result.success) =>
            /\ NCreated(r) = 7
            /\ StepOf(r, 7).status = "failed"
            /\ pc[r] \in {"save", "save_close", "done"}
            /\ trace[r].save_calls = 1


\* C13: the error that reaches the caller of get_issue is ValueError when
\* Jira answered 404, PermissionError when it answered 403 and RuntimeError
\* for any other Jira error, and get_story answers 404, 403 and 500 for them.
C13_JiraErrorKinds ==
    jr.status = "raised" =>
        LET last == jr.answers[Len(jr.answers)] IN
        /\ jr.error = get_issue_error(last)
        /\ jr.http = (IF last = 404 THEN 404 ELSE IF last = 403 THEN 403 ELSE 500)


\* The code strings an LLM answer can carry in its "code" field.
LlmCodes ==
    {o.code : o \in {c \in CodeGenOutcomes :
                         c.kind = "object" /\ c.has_code /\ isstr(c.code)}}

\* The scenarios as generate_test_scenarios returned them.
Generated(r) == result[r].test_suite.scenarios

\* C14: the code generate_code returns for a scenario is the code string of
\* the LLM answer, or a placeholder that starts with the error marker and
\* that the orchestrator's prefix check keeps out of the review.
C14_CodeOrMarkedPlaceholder ==
    \A r \in Runs : \A i \in 1..Len(Generated(r)) :
        LET code == Generated(r)[i].playwright_code IN
        \/ code \in LlmCodes
        \/ startswith(code, ErrorMarker) /\ ~Reviewable(code)

\* C15: after the code_review stage, a scenario whose generated code is the
\* error placeholder caused no LLM call and is reported in code_reviews with
\* score 0 and approved=false.
C15_PlaceholderReported ==
    \A r \in Runs :
        Joined(r) =>
            \A i \in 1..Len(Generated(r)) :
                startswith(Generated(r)[i].playwright_code, ErrorMarker) =>
                    /\ \A k \in 1..Len(tasks[r]) :
                           tasks[r][k].scenario = i => tasks[r][k].llm_calls = 0
                    /\ \E k \in 1..Len(result[r].code_reviews) :
                           LET e == result[r].code_reviews[k] IN
                           /\ e.scenario_id = Generated(r)[i].id
                           /\ e.score_is_number /\ e.score = 0
                           /\ ~e.approved

\* The gather of invocation r has resumed it.
Resumed(r) == tasks[r] # <<>> /\ pc[r] # "code_review"

\* What review returns for a failed LLM call, and what the pipeline makes of
\* it: the scenario keeps its code.
LlmFailureDegrades(r) ==
    \A k \in 1..Len(tasks[r]) :
        LET t == tasks[r][k] IN
        (t.state # "inflight" /\ t.llm = "error") =>
            /\ t.state = "returned"
            /\ t.value.approved
            /\ t.value.has_final /\ t.value.final_code = t.code
            /\ t.value.issues_found = <<"Review agent error: ">> \o LlmError
            /\ Resumed(r) =>
                   loc[r].test_suite[t.scenario].playwright_code = t.code

HasLlmFailure(r) == \E k \in 1..Len(tasks[r]) : tasks[r][k].llm = "error"

NonNumericScore(r) ==
    \E k \in 1..Len(tasks[r]) :
        tasks[r][k].state = "returned" /\ ~tasks[r][k].value.score_is_number

C17_FatalErrorEndsCall ==
    llm.fatal_at # 0 => llm.status = "raised" /\ llm.requests = llm.fatal_at

\* What a GeminiClient.generate call never leaves.
GenerateBounded ==
    (llm.provider = "gemini" /\ llm.method = "generate") =>
        /\ llm.requests <= 1 + LlmMaxRetries
        /\ llm.status = "returned" => llm.has_response
        /\ llm.status = "raised" => llm.error = "RuntimeError"
        /\ (llm.only_rate_limits /\ llm.requests = 1 + LlmMaxRetries) =>
               llm.status = "raised"
        /\ (llm.only_rate_limits /\ llm.requests < 1 + LlmMaxRetries) =>
               llm.status = "pending"

\* C18: GeminiClient.generate ends, returning a response or raising
\* RuntimeError; with a rate-limit error on every attempt it makes one
\* attempt and 3 retries and then raises.
C18_GenerateTerminates ==
    /\ []GenerateBounded
    /\ (llm.provider = "gemini" /\ llm.method = "generate"
        /\ llm.status = "pending")
           ~> (llm.status \in {"returned", "raised"})

\* C18 witness: the call raised after four rate-limited attempts.
C18_Witness ==
    /\ llm.provider = "gemini" /\ llm.method = "generate"
    /\ llm.status = "raised"
    /\ llm.only_rate_limits
    /\ llm.requests = 4


\* C19: no exception of a history or audit write reaches the pipeline or
\* its caller, and a run none of whose stages raised ends with success=true
\* and its required steps completed also when no history row of it could be
\* written.
C19_WritesNeverFailRun ==
    \A r \in Runs :
        /\ trace[r].exc # DbError
        /\ ~trace[r].raised
        /\ pc[r] = "done" => trace[r].returned
        /\ (pc[r] = "done" /\ ~trace[r].caught /\ RowsOf(r) = {}) =>
               /\ result[r].success
               /\ \A i \in 1..NCreated(r) :
                      StepOf(r, i).name \in RequiredStages =>
                          StepOf(r, i).status = "completed"

\* C19 witness: a run returned success=true and left no history row.
C19_Witness ==
    /\ pc[1] = "done"
    /\ RowsOf(1) = {}
    /\ result[1].success
    /\ NCreated(1) >= 6


\* The project the webhook is configured for ("" when none is).
ConfiguredProject == IF wh.db_key # "" THEN wh.db_key ELSE wh.settings_key

\* The delivery is jira:issue_created for a Story of the configured project.
StoryCreated ==
    /\ wh.payload.event = "jira:issue_created"
    /\ wh.payload.key # "None"
    /\ wh.payload.type = "Story"
    /\ wh.payload.project = ConfiguredProject

\* C20: with a project configured, a delivery is answered 'accepted' and
\* schedules exactly one pipeline run when it is jira:issue_created for a
\* Story of that project, and is answered 'ignored' and schedules nothing
\* otherwise.
C20_WebhookGate ==
    (wh.answer # "none" /\ ConfiguredProject # "") =>
        IF StoryCreated
        THEN wh.answer = "accepted" /\ wh.added = <<wh.payload.key>>
        ELSE wh.answer = "ignored" /\ wh.added = <<>>

\* ---------------------------------------------------------------------- C21
\* C21: for every TestSuite, after construction and after any later
\* operation on it (a scenario appended or removed, a scenario's type
\* changed, a count field assigned), total_scenarios equals len(scenarios)
\* and positive_count, negative_count and edge_case_count each equal the
\* number of scenarios of that type.
C21_CountsFollowScenarios ==
    /\ tsuite.total_scenarios = Len(tsuite.scenarios)
    /\ tsuite.positive_count = count_type(tsuite.scenarios, "positive")
    /\ tsuite.negative_count = count_type(tsuite.scenarios, "negative")
    /\ tsuite.edge_case_count = count_type(tsuite.scenarios, "edge_case")

\* ---------------------------------------------------------------------- C22
\* The lines of a text that begin with one of the three step keywords.
StepLines(text) ==
    SelectSeq(split_lines(text),
              LAMBDA l : l # <<>> /\ l[1] \in {GivenPrefix, WhenPrefix, ThenPrefix})

\* C22: for every GherkinScenario, to_gherkin_text emits the 'Scenario:'
\* line, then one Given line per given step, then one When line per when
\* step, then one Then line per then step, each group in list order, and
\* reading these lines back recovers the same ordered given, when and then
\* lists.
C22_GherkinRoundTrip ==
    gherkin.rendered =>
        LET sc == gherkin.scenario
        IN  /\ StepLines(gherkin.text) =
                   prefixed(GivenPrefix, sc.given) \o prefixed(WhenPrefix, sc.when)
                   \o prefixed(ThenPrefix, sc.then)
            /\ steps_read(gherkin.text, GivenPrefix) = sc.given
            /\ steps_read(gherkin.text, WhenPrefix) = sc.when
            /\ steps_read(gherkin.text, ThenPrefix) = sc.then

\* ---------------------------------------------------------------------- C23
\* C23: in JiraClient.publish_test_scenarios with SUBTASK mode, a status
\* transition that is unavailable or that fails for a created sub-issue
\* never makes the publication fail: the sub-issue is still recorded in
\* created_issues, the remaining scenarios are still published, and success
\* stays true (every sub-issue Jira holds is listed, and a call in which
\* every create_subtask succeeded ends with success and all n sub-issues).
C23_TransitionNeverFatal ==
    (pub.op = "tests" /\ pub.mode = "subtask") =>
        /\ Len(pub.created_issues) = pub.subtasks
        /\ (pub.status = "done" /\ ~pub.create_failed) =>
               (pub.success /\ pub.subtasks = pub.n)

\* ---------------------------------------------------------------------- C30
\* C30: JiraClient.publish_acceptance_criteria and publish_test_scenarios
\* report success=true only when content was actually written to Jira (a
\* description, a comment, a field or a sub-issue); for a JiraPublishMode
\* value the operation has no branch for, it does not report success.
C30_SuccessMeansWritten ==
    (pub.status = "done" /\ pub.success) => pub.written > 0

\* ---------------------------------------------------------------------- C24
\* C24: JiraClient.get_or_create_automation_field sends a field-creation
\* request only when no existing field is named 'Automation Script' under
\* case-insensitive comparison, and across any number of calls on one
\* client, including overlapping calls, at most one 'Automation Script'
\* field is created.
C24_OneAutomationField ==
    /\ \A k \in 1..Len(fld.posts) : fld.posts[k] = 0
    /\ fld.created <= 1

\* ---------------------------------------------------------------------- C25
\* C25: a request without a bearer token to a protected endpoint such as
\* GET /api/v1/jira/story/{issue_id} is answered 401 whatever the state of
\* the Jira configuration: the authentication check decides the response
\* before the Jira client dependency can answer with an error of its own.
C25_NoTokenIs401 ==
    (rq.requests > 0 /\ rq.request.bearer = "none") =>
        (rq.status = "401" /\ rq.resolved[1] = "get_current_user")

\* ---------------------------------------------------------------------- C29
\* The entries of code_reviews written for the scenario with this id.
EntriesOf(r, id) ==
    {e \in 1..Len(loc[r].code_reviews_summary) :
         loc[r].code_reviews_summary[e].scenario_id = id}

\* The code_review stage has just ended: gitops_write is starting, or the
\* stage raised after applying the reviews and the run is being saved.
ReviewsApplied(r) ==
    \/ pc[r] = "write"
    \/ pc[r] = "save" /\ NCreated(r) = 4

\* The code a returned review leaves on the scenario it is applied to.
CodeAfter(t) ==
    IF t.value.has_final /\ t.value.final_code # <<>>
    THEN t.value.final_code ELSE t.code

\* C29: in the code_review stage, the review result applied to a scenario
\* (its new playwright_code and its entry in code_reviews) is always the
\* result of the review that was launched for that same scenario, for every
\* mix of reviewable, empty-code and placeholder scenarios and every subset
\* of failed reviews: a review that returned gives its scenario its code and
\* its one entry, a review that raised and a scenario without review leave
\* the code as generated and write no entry.
C29_ReviewAppliedToOwnScenario ==
    \A r \in Runs :
        ReviewsApplied(r) =>
            LET suite == loc[r].test_suite
                summary == loc[r].code_reviews_summary
                launched == {tasks[r][k].scenario : k \in 1..Len(tasks[r])}
            IN  /\ \A k \in 1..Len(tasks[r]) :
                       LET t == tasks[r][k]
                           sc == suite[t.scenario]
                       IN  /\ t.code = Generated(r)[t.scenario].playwright_code
                           /\ IF t.raised
                              THEN /\ sc.playwright_code = t.code
                                   /\ EntriesOf(r, sc.id) = {}
                              ELSE /\ sc.playwright_code = CodeAfter(t)
                                   /\ \E e \in 1..Len(summary) :
                                          /\ EntriesOf(r, sc.id) = {e}
                                          /\ summary[e].approved = t.value.approved
                                          /\ summary[e].score_is_number
                                                 = t.value.score_is_number
                                          /\ summary[e].score = t.value.overall_score
                                          /\ summary[e].issues = t.value.issues_found
                /\ \A i \in 1..Len(suite) :
                       i \notin launched =>
                           /\ suite[i].playwright_code
                                  = Generated(r)[i].playwright_code
                           /\ EntriesOf(r, suite[i].id) = {}

\* C29 witness: the first scenario is a placeholder, so the only review is the
\* one of the second scenario, and its code and entry are on the second.
C29_Witness ==
    /\ pc[1] = "write"
    /\ Len(loc[1].test_suite) = 2
    /\ ~Reviewable(Generated(1)[1].playwright_code)
    /\ Len(tasks[1]) = 1
    /\ tasks[1][1].scenario = 2
    /\ tasks[1][1].value.final_code = ReviewedCode
    /\ loc[1].test_suite[2].playwright_code = ReviewedCode
    /\ loc[1].test_suite[1].playwright_code = Generated(1)[1].playwright_code
    /\ EntriesOf(1, 2) = {1}

\* ---------------------------------------------------------------------- C26
\* The ticketing backend the classification of issue_id selects.
BackendOf(issue_id) == IF is_ado(issue_id) THEN "azure" ELSE "jira"

\* C26: in one pipeline run the ticketing backend is fixed by the
\* classification of issue_id (all digits or prefixed 'ADO-' means Azure
\* DevOps, anything else means Jira), and every ticketing call of that run
\* (the story fetch, any fetch made while generating acceptance criteria,
\* the publish) goes to that backend only; a run classified as Azure DevOps
\* makes no Jira call.
C26_OneBackendPerRun ==
    \A r \in Runs : \A k \in 1..Len(trace[r].calls) :
        trace[r].calls[k][1] = BackendOf(args[r].issue_id)

\* ---------------------------------------------------------------------- C27
\* The story fetches invocation r has made.
Fetches(r) == {k \in 1..Len(trace[r].calls) : trace[r].calls[k][2] = "get"}

\* C27: in one pipeline run the story is fetched from the ticketing system
\* exactly once, in the fetch_story stage, and the acceptance criteria are
\* generated from that same story; no later stage fetches the story again.
C27_StoryFetchedOnce ==
    \A r \in Runs :
        /\ pc[r] # "idle" => Fetches(r) = {1}
        /\ \A k \in Fetches(r) : NCreated(r) >= 1 /\ k = 1

\* ---------------------------------------------------------------------- C28
\* C28 as stated: whenever run_full_agentic_pipeline returns success=true,
\* no step in the returned steps list has status failed, running or pending:
\* every listed step is completed or skipped.
C28_SuccessMeansAllDone ==
    \A r \in Runs :
        (pc[r] = "done" /\ trace[r].returned /\ result[r].success) =>
            \A i \in 1..Len(result[r].steps) :
                result[r].steps[i].status \in {"completed", "skipped"}

\* C28 amended: in a run that returns success=true every listed step is
\* completed or skipped, except that gitops_push can be listed as failed,
\* when git_commit_and_push returned a result without success; no listed
\* step is running or pending, and no other step is failed.
C28_SuccessAllowsFailedPush ==
    \A r \in Runs :
        (pc[r] = "done" /\ trace[r].returned /\ result[r].success) =>
            \A i \in 1..Len(result[r].steps) :
                LET st == result[r].steps[i] IN
                \/ st.status \in {"completed", "skipped"}
                \/ /\ st.status = "failed"
                   /\ st.name = "gitops_push"
                   /\ ~result[r].git_result.success

\* C28 witness: a run returned success=true and lists gitops_push as failed
\* between a completed gitops_write and a completed publish_results.
C28_Witness ==
    /\ pc[1] = "done"
    /\ trace[1].returned
    /\ result[1].success
    /\ Len(result[1].steps) = 7
    /\ result[1].steps[5].status = "completed"
    /\ result[1].steps[6].name = "gitops_push"
    /\ result[1].steps[6].status = "failed"
    /\ result[1].steps[7].status = "completed"

====
